---- MODULE Spec2Model ----
(***************************************************************************)
(* Boundary adapter of the asthma forecaster web app: the route handlers   *)
(* GET /api/risk/personalized, GET /api/risk and GET /api/week, which      *)
(* shell out to a prediction script, parse its stdout and fall back to     *)
(* locally synthesized days when the run fails.                            *)
(*                                                                         *)
(* Numbers that are scores are integers in thousandths (2.35 is 2350).     *)
(* A calendar date is a day number (0 is 2026-01-01); a date STRING        *)
(* "YYYY-MM-DD" is the tuple <<y, m, d>> of its zero-padded fields, so     *)
(* that string comparison is lexicographic comparison of the tuple.        *)
(* An optional value is <<>> (null / undefined) or <<v>>.                  *)
(***************************************************************************)
EXTENDS Integers, Sequences, FiniteSets, TLC

VARIABLES
  now,        \* the server's clock: today's day number
  req,        \* the request being handled, with everything it meets on its way
  resp,       \* the response to it
  lastSynth,  \* the synthetic days of the last fallback response sent
  spawned,    \* the argument lists of the processes the request has spawned
  users,      \* the users collection: email -> None or Some(document)
  cache,      \* the prediction cache: a set of PredictionRecords
  calls,      \* the outbound calls of the cron job in flight: database, week API, mail
  clock,      \* the server's clock in milliseconds (Date.now())
  rateLimitMap,\* rateLimitMap of the recommendations route: key -> None or Some(entry)
  windows,    \* history: per client address, its current window: start, requests seen, requests passed
  profiles,   \* the profile field of the users' documents: email -> None or Some(profile)
  regs,       \* the POST /api/users/register requests in flight: where each handler stands
  screens     \* the risk screens: per screen its weekData, fromModel, weekLoading and the requests it has started

vars == <<now, req, resp, lastSynth, spawned, users, cache, calls, clock, rateLimitMap, windows, profiles, regs, screens>>

\* ------------------------------------------------------------------ bounds

\* `now` ranges over Epoch .. Epoch + MaxDay
MaxDay == 1
\* the prediction script prints at most MaxRecords records for the user
MaxRecords == 8
\* a screen is explored up to MaxRequests requests started
MaxRequests == 3

\* a user's checkIns list is explored up to MaxCheckIns entries
MaxCheckIns == 2
\* a cron job loads at most MaxUsers users
MaxUsers == 3
\* a count of the rate limiter is followed up to MaxExcess above the limit
MaxExcess == 1
\* heights and weights carry BmiDigits digits after the decimal point
BmiDigits == 4

\* 2026-02-20, so that a 7-day window crosses the end of February
Epoch == 31 + 19

\* ------------------------------------------------------- optional values

None == <<>>
Some(v) == <<v>>
IsSome(o) == o # <<>>
Get(o) == o[1]

\* ------------------------------------------------------------- sequences

Slice(s, n) == IF Len(s) <= n THEN s ELSE SubSeq(s, 1, n)

Min2(a, b) == IF a <= b THEN a ELSE b
Max2(a, b) == IF a >= b THEN a ELSE b

\* ---------------------------------------------------------------- strings

\* A string whose characters matter (a location parameter, a location id, a
\* height or weight) is the sequence of its one-character strings; a decimal
\* number read from or printed to such a string is an integer in units of
\* 10^-FracDigits.

\* no decimal number in the model has more than FracDigits fraction digits
FracDigits == 6

RECURSIVE Pow10(_)
Pow10(n) == IF n = 0 THEN 1 ELSE 10 * Pow10(n - 1)

Scale == Pow10(FracDigits)

Abs(n) == IF n < 0 THEN -n ELSE n

DigitChars == <<"0", "1", "2", "3", "4", "5", "6", "7", "8", "9">>
IsDigit(c) == \E i \in 1..10 : DigitChars[i] = c
DigitOf(c) == (CHOOSE i \in 1..10 : DigitChars[i] = c) - 1

\* String.prototype.trim, the only white space being " "
RECURSIVE TrimLeft(_)
TrimLeft(s) == IF s # <<>> /\ Head(s) = " " THEN TrimLeft(Tail(s)) ELSE s
RECURSIVE TrimRight(_)
TrimRight(s) ==
  IF s # <<>> /\ s[Len(s)] = " " THEN TrimRight(SubSeq(s, 1, Len(s) - 1)) ELSE s
Trim(s) == TrimRight(TrimLeft(s))

\* the position of the first c in s, 0 when there is none
IndexOf(s, c) ==
  IF \E i \in 1..Len(s) : s[i] = c THEN CHOOSE i \in 1..Len(s) : s[i] = c /\ \A j \in 1..(i - 1) : s[j] # c
  ELSE 0

\* the length of the longest prefix of s made of digits
RECURSIVE DigitRun(_)
DigitRun(s) == IF s # <<>> /\ IsDigit(Head(s)) THEN 1 + DigitRun(Tail(s)) ELSE 0

\* the value of a string of digits read as an integer
RECURSIVE DigitsValue(_)
DigitsValue(s) ==
  IF s = <<>> THEN 0 ELSE 10 * DigitsValue(SubSeq(s, 1, Len(s) - 1)) + DigitOf(s[Len(s)])

\* the value of a string of digits read as the digits after a decimal point
FractionValue(s) == DigitsValue(s) * Pow10(FracDigits - Len(s))

\* parseFloat: white space, a sign, digits, a point and digits, of which the
\* longest prefix is read; None is NaN. (No exponent and no "Infinity": the
\* model's strings hold neither "e" nor "I".)
parseFloat(str) ==
  LET s      == TrimLeft(str)
      signed == s # <<>> /\ Head(s) \in {"-", "+"}
      neg    == s # <<>> /\ Head(s) = "-"
      body   == IF signed THEN Tail(s) ELSE s
      n      == DigitRun(body)
      rest   == SubSeq(body, n + 1, Len(body))
      m      == IF rest # <<>> /\ Head(rest) = "." THEN DigitRun(Tail(rest)) ELSE 0
      mag    == DigitsValue(SubSeq(body, 1, n)) * Scale
                  + FractionValue(SubSeq(body, n + 2, n + 1 + m))
  IN  IF n + m = 0 THEN None ELSE Some(IF neg THEN -mag ELSE mag)

\* the decimal digits of a natural number
RECURSIVE NatString(_)
NatString(n) ==
  IF n < 10 THEN <<DigitChars[n + 1]>> ELSE NatString(n \div 10) \o <<DigitChars[(n % 10) + 1]>>

\* the first k decimal digits of the fraction f / 10^k, trailing zeros dropped
RECURSIVE FractionString(_, _)
FractionString(f, k) ==
  IF f = 0 THEN <<>>
  ELSE <<DigitChars[(f \div Pow10(k - 1)) + 1]>> \o FractionString(f % Pow10(k - 1), k - 1)

\* Number.prototype.toString of a number of moderate size: the shortest
\* decimal, -0 printed as "0"
NumberString(v) ==
  LET a  == Abs(v)
      ip == NatString(a \div Scale)
      fp == FractionString(a % Scale, FracDigits)
  IN  (IF v < 0 THEN <<"-">> ELSE <<>>) \o ip \o (IF fp = <<>> THEN <<>> ELSE <<".">> \o fp)

\* Math.round(x * 10000) / 10000, ties towards +Infinity
Round4(v) ==
  LET unit == Scale \div 10000 IN ((v + unit \div 2) \div unit) * unit

\* /^-?\d+\.?\d*$/
IsDecimal(s) ==
  LET body == IF s # <<>> /\ Head(s) = "-" THEN Tail(s) ELSE s
      n    == DigitRun(body)
      rest == SubSeq(body, n + 1, Len(body))
      frac == IF rest # <<>> /\ Head(rest) = "." THEN Tail(rest) ELSE rest
  IN  n >= 1 /\ DigitRun(frac) = Len(frac)

\* /^\d{5}(-\d{4})?$/
IsZip(s) ==
  \/ Len(s) = 5 /\ DigitRun(s) = 5
  \/ Len(s) = 10 /\ DigitRun(s) = 5 /\ s[6] = "-" /\ DigitRun(SubSeq(s, 7, 10)) = 4

\* the location id with coordinates of 3 decimal places
toLocationId_Round3(location) ==
  IF ~IsSome(location) \/ Trim(Get(location)) = <<>> THEN None
  ELSE LET s == Trim(Get(location))
           c == IndexOf(s, ",")
           R3(v) == LET unit == Scale \div 1000 IN ((v + unit \div 2) \div unit) * unit
       IN  IF c > 0 /\ IsDecimal(SubSeq(s, 1, c - 1)) /\ IsDecimal(SubSeq(s, c + 1, Len(s)))
           THEN Some(NumberString(R3(Get(parseFloat(SubSeq(s, 1, c - 1))))) \o <<"_">>
                       \o NumberString(R3(Get(parseFloat(SubSeq(s, c + 1, Len(s)))))))
           ELSE IF IsZip(s) THEN Some(<<"z", "i", "p", "_">> \o SubSeq(s, 1, 5))
           ELSE Some(s)

\* toLocationId: "lat,lon" -> "lat_lon", ZIP -> zip_XXXXX, anything else trimmed
toLocationId(location) ==
  IF ~IsSome(location) \/ Trim(Get(location)) = <<>> THEN None
  ELSE LET s == Trim(Get(location))
           c == IndexOf(s, ",")
       IN  IF c > 0 /\ IsDecimal(SubSeq(s, 1, c - 1)) /\ IsDecimal(SubSeq(s, c + 1, Len(s)))
           THEN Some(NumberString(Round4(Get(parseFloat(SubSeq(s, 1, c - 1))))) \o <<"_">>
                       \o NumberString(Round4(Get(parseFloat(SubSeq(s, c + 1, Len(s)))))))
           ELSE IF IsZip(s) THEN Some(<<"z", "i", "p", "_">> \o SubSeq(s, 1, 5))
           ELSE Some(s)

\* ----------------------------------------------------------------- dates

MonthLen == <<31, 28, 31, 30, 31, 30, 31, 31, 30, 31, 30, 31>>

RECURSIVE MonthDay(_, _)
MonthDay(n, m) ==
  IF n < MonthLen[m] THEN <<2026, m, n + 1>> ELSE MonthDay(n - MonthLen[m], m + 1)

\* the Date whose time value is NaN ("Invalid Date")
InvalidDate == -1

\* the string "NaN-NaN-NaN" that toLocalDateStr makes of an Invalid Date
NaNDateStr == <<0, 0, 0>>

\* toLocalDateStr(d): the YYYY-MM-DD string of the Date whose day number is n
toLocalDateStr(n) == IF n = InvalidDate THEN NaNDateStr ELSE MonthDay(n, 1)

RECURSIVE DaysBefore(_)
DaysBefore(m) == IF m = 1 THEN 0 ELSE MonthLen[m - 1] + DaysBefore(m - 1)

\* new Date(s + "T12:00:00"): the day number of a well-formed date string
ParseDate(s) == DaysBefore(s[2]) + s[3] - 1

\* new Date(s + "T12:00:00") of any string of the form dddd-dd-dd: a month
\* outside 01..12 gives an Invalid Date
NewDate(s) == IF s[2] \in 1..12 THEN ParseDate(s) ELSE InvalidDate

\* d.setDate(d.getDate() + i): an Invalid Date stays invalid
SetDate(d, i) == IF d = InvalidDate THEN InvalidDate ELSE d + i

\* a.localeCompare(b) < 0 on zero-padded date strings
DateLess(a, b) ==
  \/ a[1] < b[1]
  \/ a[1] = b[1] /\ a[2] < b[2]
  \/ a[1] = b[1] /\ a[2] = b[2] /\ a[3] < b[3]

RECURSIVE DigitSum(_)
DigitSum(n) == IF n < 10 THEN n ELSE (n % 10) + DigitSum(n \div 10)

\* sum of the char codes of "YYYY-MM-DD": eight digits ('0' is 48), two '-' (45)
CharCodeSum(s) == 8 * 48 + 2 * 45 + DigitSum(s[1]) + DigitSum(s[2]) + DigitSum(s[3])

\* ---------------------------------------------------------------- scores

\* Math.round(x / q) * q on thousandths: ties go towards +infinity
RoundTo(n, q) == ((n + (q \div 2)) \div q) * q

\* personalized route: Math.round(Number(n) * 100) / 100
toFloatScore(n) == RoundTo(n, 10)

Label(level) ==
  IF level = "low" THEN "Low" ELSE IF level = "moderate" THEN "Moderate" ELSE "High"

\* toRiskDisplay without the clamp to [1, 5]
toRiskDisplay_NoClamp(value, targetCol) ==
  LET raw   == IF value <= 0 THEN 1500 ELSE value
      score == toFloatScore(raw)
      level == IF score <= 2000 THEN "low" ELSE IF score <= 4000 THEN "moderate" ELSE "high"
  IN  [score |-> score, level |-> level, label |-> Label(level)]

\* toRiskDisplay of the personalized route (targetCol is not read)
toRiskDisplay(value, targetCol) ==
  LET raw   == IF value <= 0 THEN 1500 ELSE value
      score == toFloatScore(Min2(5000, Max2(1000, raw)))
      level == IF score <= 2000 THEN "low" ELSE IF score <= 4000 THEN "moderate" ELSE "high"
  IN  [score |-> score, level |-> level, label |-> Label(level)]

\* ------------------------------------------------- spawnSync and its result

\* what a child process printed on stdout, as the handler classifies it:
\*   "null"    no string at all (the process was never spawned)
\*   "empty"   ""                "blank"   white space only
\*   "garbage" text JSON.parse rejects
\*   "object"  a JSON value that is not an array
\*   "array"   a JSON array (val holds its elements)
NullOut  == [kind |-> "null", val |-> <<>>]
EmptyOut == [kind |-> "empty", val |-> <<>>]
BlankOut == [kind |-> "blank", val |-> <<>>]
GarbageOut == [kind |-> "garbage", val |-> <<>>]
ObjectOut(v) == [kind |-> "object", val |-> v]
ArrayOut(v) == [kind |-> "array", val |-> v]

\* the interpreter was not found: spawnSync returns error ENOENT, status null
Enoent == [status |-> None, error |-> "ENOENT", stdout |-> NullOut, stderr |-> None]
\* the run was killed at the timeout: status null, whatever was printed so far
TimedOut(out) == [status |-> None, error |-> "ETIMEDOUT", stdout |-> out, stderr |-> Some("")]
\* the process exited with code c
Exited(c, out, err) == [status |-> Some(c), error |-> "none", stdout |-> out, stderr |-> Some(err)]

\* typeof result.stdout === "string" ? result.stdout.trim() : ""
TrimStdout(result) ==
  IF result.stdout.kind \in {"null", "blank"} THEN EmptyOut ELSE result.stdout

\* typeof result.stderr === "string" ? result.stderr.trim() : ""
TrimStderr(result) == IF IsSome(result.stderr) THEN Get(result.stderr) ELSE ""

StatusZero(result) == result.status = Some(0)

\* the failure test without the exit status
RunFailed_IgnoreStatus(result) == TrimStdout(result).kind = "empty"

\* result.status !== 0 || !stdout
RunFailed(result) == ~StatusZero(result) \/ TrimStdout(result).kind = "empty"

\* getPythonCandidates: the venv interpreter alone, or python3 then python
getPythonCandidates(venv) == IF venv THEN <<"venv">> ELSE <<"python3", "python">>

\* the retry loop of the personalized route: the next candidate is tried only
\* after a failed run whose error is ENOENT. runs[k] is what the k-th spawn
\* returns; the result is [result, used] with `used` the number of spawns.
RECURSIVE RetryLoop(_, _, _, _)
RetryLoop(result, i, ncand, runs) ==
  IF i < ncand /\ RunFailed(result) /\ result.error = "ENOENT"
  THEN IF i + 1 <= Len(runs)
       THEN RetryLoop(runs[i + 1], i + 1, ncand, runs)
       ELSE [result |-> result, used |-> i + 1]
  ELSE [result |-> result, used |-> i]

\* --------------------------------------------------- synthetic fallback days

levels == <<
  [score |-> 1500, level |-> "low", label |-> "Low"],
  [score |-> 2000, level |-> "low", label |-> "Low"],
  [score |-> 2500, level |-> "moderate", label |-> "Moderate"],
  [score |-> 3000, level |-> "moderate", label |-> "Moderate"],
  [score |-> 3500, level |-> "moderate", label |-> "Moderate"],
  [score |-> 4000, level |-> "high", label |-> "High"],
  [score |-> 4500, level |-> "high", label |-> "High"] >>

\* the number of days the personalized route asks for and synthesizes
Days == 7

SyntheticDay(today, i) ==
  LET risk == levels[(i % Len(levels)) + 1]
  IN  [date |-> toLocalDateStr(today + i),
       risk |-> [score |-> toFloatScore(risk.score), level |-> risk.level, label |-> risk.label],
       activeRiskFactors |-> <<>>]

\* fallbackDays attaching the reason in every environment
fallbackDays_AlwaysReason(debugStderr, nodeEnv, today) ==
  LET body == [start |-> toLocalDateStr(today),
               days |-> [k \in 1..Days |-> SyntheticDay(today, k - 1)],
               fromModel |-> FALSE]
  IN  IF debugStderr # ""
      THEN [status |-> 200, src |-> "synthetic", body |-> body @@ [fallbackReason |-> debugStderr]]
      ELSE [status |-> 200, src |-> "synthetic", body |-> body]

\* fallbackDays flagging its days as model output
fallbackDays_FromModel(debugStderr, nodeEnv, today) ==
  LET body == [start |-> toLocalDateStr(today),
               days |-> [k \in 1..Days |-> SyntheticDay(today, k - 1)],
               fromModel |-> TRUE]
  IN  IF nodeEnv = "development" /\ debugStderr # ""
      THEN [status |-> 200, src |-> "synthetic", body |-> body @@ [fallbackReason |-> debugStderr]]
      ELSE [status |-> 200, src |-> "synthetic", body |-> body]

\* fallbackDays(debugStderr): "" stands for an absent or empty reason
fallbackDays(debugStderr, nodeEnv, today) ==
  LET body == [start |-> toLocalDateStr(today),
               days |-> [k \in 1..Days |-> SyntheticDay(today, k - 1)],
               fromModel |-> FALSE]
  IN  IF nodeEnv = "development" /\ debugStderr # ""
      THEN [status |-> 200, src |-> "synthetic", body |-> body @@ [fallbackReason |-> debugStderr]]
      ELSE [status |-> 200, src |-> "synthetic", body |-> body]

\* ------------------------------------------- GET /api/risk/personalized

\* forUser.sort((a, b) => a.date.localeCompare(b.date)): a stable sort
RECURSIVE InsertByDate(_, _)
InsertByDate(sorted, x) ==
  IF sorted = <<>> THEN <<x>>
  ELSE IF DateLess(x.date, Head(sorted).date) THEN <<x>> \o sorted
       ELSE <<Head(sorted)>> \o InsertByDate(Tail(sorted), x)

RECURSIVE SortFrom(_, _)
SortFrom(sorted, rest) ==
  IF rest = <<>> THEN sorted ELSE SortFrom(InsertByDate(sorted, Head(rest)), Tail(rest))

SortByDate(s) == SortFrom(<<>>, s)

\* p.risk ?? p.flare_day ?? 1
RecordValue(p) ==
  IF IsSome(p.risk) THEN Get(p.risk) ELSE IF IsSome(p.flare_day) THEN Get(p.flare_day) ELSE 1000

\* one element of the .map(...) of the personalized route
ModelDay(p, targetCol) ==
  LET risk == toRiskDisplay(RecordValue(p), targetCol)
      base == [score |-> toFloatScore(risk.score), level |-> risk.level, label |-> risk.label]
  IN  [date |-> p.date,
       risk |-> IF IsSome(p.probability)
                THEN base @@ [probability |-> toFloatScore(Get(p.probability))]
                ELSE base,
       activeRiskFactors |-> <<>>]

\* the days built from the whole parsed list, whoever its records are of
ModelDays_Unfiltered(list, userId) ==
  LET forUser   == list
      hasRisk   == \E i \in 1..Len(forUser) : IsSome(forUser[i].risk)
      targetCol == IF hasRisk THEN "risk" ELSE "flare_day"
      kept      == Slice(SortByDate(forUser), Days)
  IN  [i \in 1..Len(kept) |-> ModelDay(kept[i], targetCol)]

\* the days built from the parsed list: filter by user, sort, cut to 7, map
ModelDays(list, userId) ==
  LET forUser   == SelectSeq(list, LAMBDA p : p.user_id = userId)
      hasRisk   == \E i \in 1..Len(forUser) : IsSome(forUser[i].risk)
      targetCol == IF hasRisk THEN "risk" ELSE "flare_day"
      kept      == Slice(SortByDate(forUser), Days)
  IN  [i \in 1..Len(kept) |-> ModelDay(kept[i], targetCol)]

\* an uncaught exception in a route handler: the framework answers 500
Threw == [status |-> 500, src |-> "none", body |-> <<>>]

\* the handler after the session and account checks and the file checks
PersonalizedPipeline(rq, today) ==
  LET cands  == getPythonCandidates(rq.venv)
      result == RetryLoop(rq.runs[1], 1, Len(cands), rq.runs).result
      stdout == TrimStdout(result)
      stderr == TrimStderr(result)
  IN  IF RunFailed(result) THEN fallbackDays(stderr, rq.nodeEnv, today)
      ELSE IF stdout.kind = "garbage" THEN fallbackDays("", rq.nodeEnv, today)
      ELSE IF stdout.kind = "object" THEN Threw
      ELSE LET forUser == SelectSeq(stdout.val, LAMBDA p : p.user_id = rq.userId)
               days    == ModelDays(stdout.val, rq.userId)
           IN  IF Len(forUser) = 0
               THEN fallbackDays("No predictions for current user (user_id mismatch?)",
                                 rq.nodeEnv, today)
               ELSE [status |-> 200, src |-> "model",
                     body |-> [start |-> days[1].date, days |-> days, fromModel |-> TRUE]]

PersonalizedResponse(rq, today) ==
  IF ~rq.session THEN [status |-> 401, src |-> "none", body |-> [error |-> "Unauthorized"]]
  ELSE IF ~rq.account
  THEN [status |-> 200, src |-> "none",
        body |-> [error |-> "User not found", days |-> <<>>, fromModel |-> FALSE]]
  ELSE IF ~rq.scriptExists \/ ~rq.hasModel THEN fallbackDays("", rq.nodeEnv, today)
  ELSE PersonalizedPipeline(rq, today)

\* ------------------- GET /api/risk/personalized, the file's second copy

\* Math.round(Number(n) * 10) / 10
toFloatScore2(n) == RoundTo(n, 100)

\* toRiskDisplay of the second copy: flare_day is read as a 0/1 label
toRiskDisplay2(value, targetCol) ==
  IF targetCol = "flare_day"
  THEN LET level == IF value = 1000 THEN "high" ELSE "low"
       IN  [score |-> toFloatScore2(IF value = 1000 THEN 4000 ELSE 1500),
            level |-> level, label |-> IF level = "high" THEN "High" ELSE "Low"]
  ELSE LET score == toFloatScore2(Min2(5000, Max2(1000, value)))
           level == IF score <= 2000 THEN "low" ELSE IF score <= 4000 THEN "moderate" ELSE "high"
       IN  [score |-> score, level |-> level, label |-> Label(level)]

\* fallbackDays of the second copy (dates taken from the UTC clock, which the
\* model does not tell apart from the local one)
fallbackDays2(today) ==
  [status |-> 200, src |-> "synthetic",
   body |-> [start |-> toLocalDateStr(today),
             days |-> [k \in 1..Days |->
                         LET risk == levels[((k - 1) % Len(levels)) + 1]
                         IN  [date |-> toLocalDateStr(today + (k - 1)),
                              risk |-> [score |-> toFloatScore2(risk.score),
                                        level |-> risk.level, label |-> risk.label],
                              activeRiskFactors |-> <<>>]],
             fromModel |-> FALSE]]

ModelDays2(list, userId) ==
  LET forUser   == SelectSeq(list, LAMBDA p : p.user_id = userId)
      hasRisk   == \E i \in 1..Len(forUser) : IsSome(forUser[i].risk)
      targetCol == IF hasRisk THEN "risk" ELSE "flare_day"
      kept      == Slice(SortByDate(forUser), Days)
  IN  [i \in 1..Len(kept) |->
         LET risk == toRiskDisplay2(RecordValue(kept[i]), targetCol)
         IN  [date |-> kept[i].date,
              risk |-> [score |-> toFloatScore2(risk.score), level |-> risk.level,
                        label |-> risk.label],
              activeRiskFactors |-> <<>>]]

\* the second copy: one interpreter, one spawn, no check for an empty forUser
PersonalizedResponse2(rq, today) ==
  IF ~rq.session THEN [status |-> 401, src |-> "none", body |-> [error |-> "Unauthorized"]]
  ELSE IF ~rq.account
  THEN [status |-> 200, src |-> "none",
        body |-> [error |-> "User not found", days |-> <<>>, fromModel |-> FALSE]]
  ELSE IF ~rq.scriptExists THEN fallbackDays2(today)
  ELSE LET result == rq.runs[1]
           stdout == TrimStdout(result)
       IN  IF RunFailed(result) THEN fallbackDays2(today)
           ELSE IF stdout.kind = "garbage" THEN fallbackDays2(today)
           ELSE IF stdout.kind = "object" THEN Threw
           ELSE LET days == ModelDays2(stdout.val, rq.userId)
                IN  [status |-> 200, src |-> "model",
                     body |-> [start |-> IF Len(days) > 0 THEN days[1].date
                                         ELSE toLocalDateStr(today),
                               days |-> days, fromModel |-> TRUE]]

\* ------------------------------------------------------------ GET /api/risk

\* isIsoDate(value): non-empty and of the form dddd-dd-dd
isIsoDate(param) == param.iso

DUMMY_ACTIVE_RISK_FACTORS == <<"pollen", "air", "temp", "humidity">>

\* fallbackByDate(d): a score hashed from the characters of the date string
fallbackByDate(d) ==
  LET n       == CharCodeSum(d)
      score   == 1500 + (n % 30) * 100
      clamped == Min2(5000, Max2(1000, score))
      level   == IF clamped < 2000 THEN "low" ELSE IF clamped < 4000 THEN "moderate" ELSE "high"
  IN  [score |-> RoundTo(clamped, 100), level |-> level, label |-> Label(level)]

\* the spawns of GET /api/risk, in order: the flare module (or the risk
\* module when there is no flare model) with python3, again with python after
\* ENOENT, then - flare only - the risk module with python3 and with python.
\* [result, used] as for RetryLoop.
RiskSecond(r, k, win32, runs) ==
  IF ~StatusZero(r) /\ r.error = "ENOENT" /\ ~win32
  THEN IF k + 1 <= Len(runs) THEN [result |-> runs[k + 1], used |-> k + 1]
       ELSE [result |-> r, used |-> k + 1]
  ELSE [result |-> r, used |-> k]

RiskRunAll(useFlare, win32, runs) ==
  LET first == RiskSecond(runs[1], 1, win32, runs)
  IN  IF ~StatusZero(first.result) /\ useFlare
      THEN IF first.used + 1 <= Len(runs)
           THEN RiskSecond(runs[first.used + 1], first.used + 1, win32, runs)
           ELSE [result |-> first.result, used |-> first.used + 1]
      ELSE first

RiskFallback(date) ==
  LET risk == fallbackByDate(date)
  IN  [status |-> 200, src |-> "synthetic",
       body |-> [date |-> date,
                 risk |-> [score |-> risk.score, level |-> risk.level, label |-> risk.label],
                 activeRiskFactors |-> DUMMY_ACTIVE_RISK_FACTORS]]

\* the body built from the parsed data when data.risk is present
RiskModelBody(data) ==
  LET factors == IF IsSome(data.activeRiskFactors) /\ Len(Get(data.activeRiskFactors)) > 0
                 THEN Get(data.activeRiskFactors) ELSE DUMMY_ACTIVE_RISK_FACTORS
      body    == [date |-> data.date, risk |-> Get(data.risk), activeRiskFactors |-> factors]
  IN  IF IsSome(data.daily) THEN body @@ [daily |-> Get(data.daily)] ELSE body

\* from the trimmed stdout on: the exit status is not read here
RiskRespond(rq, result) ==
  LET stdout == TrimStdout(result)
  IN  IF stdout.kind = "object" /\ IsSome(stdout.val.risk)
      THEN [status |-> 200, src |-> "model", body |-> RiskModelBody(stdout.val)]
      ELSE RiskFallback(rq.date.val)

RiskResponse(rq) ==
  IF ~isIsoDate(rq.date)
  THEN [status |-> 400, src |-> "none",
        body |-> [error |-> "Missing or invalid date (expected YYYY-MM-DD)."]]
  ELSE RiskRespond(rq, RiskRunAll(rq.useFlare, rq.win32, rq.runs).result)

RiskSpawns(rq) ==
  IF ~isIsoDate(rq.date) THEN 0
  ELSE IF rq.runs = <<>> THEN 1
  ELSE RiskRunAll(rq.useFlare, rq.win32, rq.runs).used

\* ------------------------------------------------------------ GET /api/week

\* toFloatScore of the week route: Math.round(Number(n) * 10) / 10
toFloatScoreWeek(n) == RoundTo(n, 100)

\* the largest and smallest number of days GET /api/week serves
WeekMaxDays == 14
WeekMinDays == 1

\* Math.min(14, Math.max(1, daysParam ? parseInt(daysParam, 10) : 7)) || 7
WeekDayCount(p) ==
  IF p.kind = "absent" THEN Min2(WeekMaxDays, Max2(WeekMinDays, Days))
  ELSE IF p.kind = "nan" THEN Days
  ELSE LET c == Min2(WeekMaxDays, Max2(WeekMinDays, p.n)) IN IF c = 0 THEN Days ELSE c

\* if (!start || !isIsoDate(start)) start = toLocalDateStr(new Date())
WeekStart(rq, today) == IF isIsoDate(rq.start) THEN rq.start.val ELSE toLocalDateStr(today)

\* result.status === 0 && typeof result.stdout === "string" && result.stdout.trim()
WeekRunOk(result) == StatusZero(result) /\ TrimStdout(result).kind # "empty"

\* for (const py of pyCandidates): every candidate is spawned until one run
\* is ok. [result, used] as for RetryLoop.
RECURSIVE WeekLoop(_, _, _)
WeekLoop(k, ncand, runs) ==
  IF k > Len(runs) THEN [result |-> Enoent, used |-> k]
  ELSE IF WeekRunOk(runs[k]) \/ k = ncand THEN [result |-> runs[k], used |-> k]
  ELSE WeekLoop(k + 1, ncand, runs)

WEEKDAY_NAMES == <<"Sunday", "Monday", "Tuesday", "Wednesday", "Thursday", "Friday", "Saturday">>
SEASONS == <<"winter", "spring", "summer", "fall">>

\* d.getDay() of day number n: 2026-01-01 is a Thursday
GetDay(n) == (4 + n) % 7

\* a synthetic day of the week route taken from the table's sixth entry on
WeekSyntheticDay_FromHigh(startDay, i) ==
  LET risk    == levels[((i + 5) % Len(levels)) + 1]
      d       == SetDate(startDay, i)
      dateStr == toLocalDateStr(d)
      month   == dateStr[2]
      base    == [date |-> dateStr,
                  risk |-> [score |-> toFloatScoreWeek(risk.score), level |-> risk.level,
                            label |-> risk.label],
                  activeRiskFactors |-> <<>>]
  IN  IF d = InvalidDate
      THEN base @@ [daily |-> [date |-> dateStr, season |-> "-"]]
      ELSE base @@ [daily |-> [date |-> dateStr,
                               day_of_week |-> WEEKDAY_NAMES[GetDay(d) + 1],
                               season |-> SEASONS[((((month % 12) + 3) \div 3) - 1) + 1]]]

\* one synthetic day of the week route (the daily fields that are the
\* literal null are left out, and so is day_of_week when it is undefined)
WeekSyntheticDay(startDay, i) ==
  LET risk    == levels[(i % Len(levels)) + 1]
      d       == SetDate(startDay, i)
      dateStr == toLocalDateStr(d)
      month   == dateStr[2]
      base    == [date |-> dateStr,
                  risk |-> [score |-> toFloatScoreWeek(risk.score), level |-> risk.level,
                            label |-> risk.label],
                  activeRiskFactors |-> <<>>]
  IN  IF d = InvalidDate
      THEN base @@ [daily |-> [date |-> dateStr, season |-> "-"]]
      ELSE base @@ [daily |-> [date |-> dateStr,
                               day_of_week |-> WEEKDAY_NAMES[GetDay(d) + 1],
                               season |-> SEASONS[((((month % 12) + 3) \div 3) - 1) + 1]]]

WeekFallback(rq, today) ==
  LET fallbackStart == WeekStart(rq, today)
      days          == WeekDayCount(rq.days)
  IN  [status |-> 200, src |-> "synthetic",
       body |-> [start |-> fallbackStart,
                 days |-> [k \in 1..days |-> WeekSyntheticDay(NewDate(fallbackStart), k - 1)],
                 fromModel |-> FALSE]]

\* data.days.map(d => ({...d, risk: {...d.risk, score: toFloatScore(d.risk.score)}}))
WeekMappedDay(d) ==
  LET r    == Get(d.risk)
      base == [date |-> d.date,
               risk |-> [score |-> toFloatScoreWeek(r.score), level |-> r.level,
                         label |-> r.label],
               activeRiskFactors |-> d.activeRiskFactors]
  IN  IF IsSome(d.daily) THEN base @@ [daily |-> Get(d.daily)] ELSE base

\* the parse succeeds, data.days is an array and the map does not throw
WeekParsed(stdout) ==
  /\ stdout.kind = "object"
  /\ stdout.val.days.isArray
  /\ \A i \in 1..Len(stdout.val.days.items) : IsSome(stdout.val.days.items[i].risk)

WeekResponse(rq, today) ==
  LET result == WeekLoop(1, Len(getPythonCandidates(rq.venv)), rq.runs).result
      stdout == TrimStdout(result)
  IN  IF StatusZero(result) /\ stdout.kind # "empty" /\ WeekParsed(stdout)
      THEN [status |-> 200, src |-> "model",
            body |-> [start |-> stdout.val.start,
                      days |-> [i \in 1..Len(stdout.val.days.items) |->
                                  WeekMappedDay(stdout.val.days.items[i])],
                      fromModel |-> TRUE]]
      ELSE WeekFallback(rq, today)

WeekSpawns(rq) == WeekLoop(1, Len(getPythonCandidates(rq.venv)), rq.runs).used

\* url.searchParams.get("location") ?? url.searchParams.get("location_id")
LocationParam(rq) == IF IsSome(rq.location.raw) THEN rq.location ELSE rq.location_id

\* if (locationId?.trim()) args.push("--location-id", locationId.trim())
RiskCall(py, module, rq) ==
  LET locationId == toLocationId(LocationParam(rq).raw)
  IN  [py |-> py, module |-> module, date |-> rq.date.val,
       locationId |-> IF IsSome(locationId) /\ Trim(Get(locationId)) # <<>>
                      THEN Some(Trim(Get(locationId))) ELSE None]

\* the argument lists of the spawns of GET /api/risk, in order
RiskArgs(rq) ==
  IF ~isIsoDate(rq.date) THEN <<>>
  ELSE LET py     == IF rq.win32 THEN "python" ELSE "python3"
           module == IF rq.useFlare THEN "apps.ml.predict_flare" ELSE "apps.ml.predict_risk"
           first  == RiskSecond(rq.runs[1], 1, rq.win32, rq.runs)
           all    == RiskRunAll(rq.useFlare, rq.win32, rq.runs)
       IN  <<RiskCall(py, module, rq)>>
           \o (IF first.used = 2 THEN <<RiskCall("python", module, rq)>> ELSE <<>>)
           \o (IF all.used > first.used THEN <<RiskCall(py, "apps.ml.predict_risk", rq)>> ELSE <<>>)
           \o (IF all.used > first.used + 1
               THEN <<RiskCall("python", "apps.ml.predict_risk", rq)>> ELSE <<>>)

\* locationId.split("_", 2)
SplitUnderscore(s) ==
  LET u    == IndexOf(s, "_")
      rest == SubSeq(s, u + 1, Len(s))
      v    == IndexOf(rest, "_")
  IN  IF u = 0 THEN <<s>>
      ELSE <<SubSeq(s, 1, u - 1), IF v = 0 THEN rest ELSE SubSeq(rest, 1, v - 1)>>

StartsWithZip(s) == Len(s) >= 4 /\ SubSeq(s, 1, 4) = <<"z", "i", "p", "_">>

\* --lat and --lon, passed when the location id is "lat_lon"
WeekLatLon(locationId) ==
  IF IsSome(locationId) /\ ~StartsWithZip(Get(locationId)) /\ IndexOf(Get(locationId), "_") > 0
  THEN LET parts == SplitUnderscore(Get(locationId))
           lat   == parseFloat(parts[1])
           lon   == parseFloat(parts[2])
       IN  IF IsSome(lat) /\ IsSome(lon)
           THEN Some(<<NumberString(Get(lat)), NumberString(Get(lon))>>) ELSE None
  ELSE None

\* the argument list of every spawn of GET /api/week
WeekCall(py, rq, today) ==
  LET locationId == toLocationId(LocationParam(rq).raw)
  IN  [py |-> py, module |-> "apps.ml.predict_flare", start |-> WeekStart(rq, today),
       days |-> WeekDayCount(rq.days), locationId |-> locationId,
       latlon |-> WeekLatLon(locationId)]

WeekArgs(rq, today) ==
  [k \in 1..WeekSpawns(rq) |-> WeekCall(getPythonCandidates(rq.venv)[k], rq, today)]

\* the number of spawns the handler performs for rq
PersonalizedSpawns(rq) ==
  IF rq.session /\ rq.account /\ rq.scriptExists /\ rq.hasModel
  THEN IF rq.runs = <<>> THEN 1
       ELSE RetryLoop(rq.runs[1], 1, Len(getPythonCandidates(rq.venv)), rq.runs).used
  ELSE 0

\* the argument lists of the spawns of GET /api/risk/personalized
PersonalizedArgs(rq) ==
  [k \in 1..PersonalizedSpawns(rq) |->
     [py |-> getPythonCandidates(rq.venv)[k], script |-> "predict_personalized.py", days |-> Days]]

\* the second copy spawns once: python3, the platform of the requests not being win32
PersonalizedArgs2(rq) ==
  IF rq.session /\ rq.account /\ rq.scriptExists
  THEN <<[py |-> "python3", script |-> "predict_personalized.py", days |-> Days]>>
  ELSE <<>>

\* ------------------------------------------------------ the inputs explored

NodeEnvs == {"development", "production"}

\* the signed-in user's id and another user's
Me == "u1"
Other == "u2"

PRec(u, day, risk, flare, prob) ==
  [user_id |-> u, date |-> toLocalDateStr(day), risk |-> risk, flare_day |-> flare,
   probability |-> prob]

\* raw values (thousandths) the script may print: negative, zero, below 1,
\* on and around the tier thresholds, above 5
RawVals == {0 - 2000, 0, 400, 1000, 2000, 2004, 2006, 2125, 3500, 4000, 4004, 4006, 5000, 7500}
FlareVals == {0, 1000, 3200}
RawCycle == <<1000, 2004, 2006, 4004, 4006, 5000, 7500, 0, 3500>>

Reverse(s) == [i \in 1..Len(s) |-> s[Len(s) + 1 - i]]

\* n records of the user, on consecutive days (step 1) or all on one day
\* (step 0), printed in ascending or descending order, after `others` records
\* of another user
ShapeList(n, step, desc, others) ==
  LET mine == [i \in 1..n |->
                 PRec(Me, Epoch + (i - 1) * step,
                      Some(RawCycle[((i - 1) % Len(RawCycle)) + 1]), None, None)]
      them == [i \in 1..others |-> PRec(Other, Epoch, Some(5000), None, None)]
  IN  them \o (IF desc THEN Reverse(mine) ELSE mine)

ShapeLists ==
  {ShapeList(n, step, desc, others) :
     n \in 0..MaxRecords, step \in {0, 1}, desc \in BOOLEAN, others \in {0, 1}}

\* one record of the user with every combination of risk and flare_day, a
\* record carrying a probability, a list mixing both targets, and a batch
\* with records of another user before and between the user's
ValueLists ==
  {<<PRec(Me, Epoch, r, f, None)>> :
     r \in {None} \cup {Some(v) : v \in RawVals}, f \in {None} \cup {Some(v) : v \in FlareVals}}
  \cup {<<PRec(Me, Epoch, None, Some(3200), Some(873))>>}
  \cup {<<PRec(Me, Epoch, None, Some(1000), None), PRec(Me, Epoch + 1, Some(4006), None, None)>>}
  \cup {<<PRec(Other, Epoch, Some(5000), None, None), PRec(Me, Epoch + 1, None, Some(1000), None),
          PRec(Other, Epoch + 1, Some(1000), None, Some(873)), PRec(Me, Epoch, None, Some(0), None)>>}

PersonalizedLists == ShapeLists \cup ValueLists

SampleList == ShapeList(Days, 1, FALSE, 0)

\* what one spawn of predict_personalized.py may return
PersonalizedRuns ==
  {Enoent}
  \cup {TimedOut(o) : o \in {EmptyOut, ArrayOut(SampleList)}}
  \cup {Exited(1, o, e) : o \in {EmptyOut, GarbageOut, ArrayOut(SampleList)},
                          e \in {"", "Traceback"}}
  \cup {Exited(0, o, e) : o \in {EmptyOut, BlankOut}, e \in {"", "Traceback"}}
  \cup {Exited(0, o, "") : o \in {GarbageOut, ObjectOut([error |-> "no users"])}}
  \cup {Exited(0, ArrayOut(l), "") : l \in PersonalizedLists}

PReq(session, account, scriptExists, hasModel, venv, nodeEnv, runs) ==
  [route |-> "personalized", copy |-> 1, session |-> session, account |-> account, userId |-> Me,
   scriptExists |-> scriptExists, hasModel |-> hasModel, venv |-> venv,
   nodeEnv |-> nodeEnv, runs |-> runs]

PersonalizedRequests ==
  {PReq(FALSE, FALSE, TRUE, TRUE, FALSE, e, <<>>) : e \in NodeEnvs}
  \cup {PReq(TRUE, FALSE, TRUE, TRUE, FALSE, e, <<>>) : e \in NodeEnvs}
  \cup {PReq(TRUE, TRUE, s, m, FALSE, e, <<>>) :
          s \in BOOLEAN, m \in BOOLEAN, e \in NodeEnvs}
  \cup {PReq(TRUE, TRUE, TRUE, TRUE, v, e, <<r>>) :
          v \in BOOLEAN, e \in NodeEnvs, r \in PersonalizedRuns}
  \cup {PReq(TRUE, TRUE, TRUE, TRUE, v, e, <<Enoent, r>>) :
          v \in BOOLEAN, e \in NodeEnvs, r \in PersonalizedRuns}

PReq2(session, account, scriptExists, runs) ==
  [route |-> "personalized", copy |-> 2, session |-> session, account |-> account,
   userId |-> Me, scriptExists |-> scriptExists, hasModel |-> TRUE, venv |-> FALSE,
   nodeEnv |-> "production", runs |-> runs]

PersonalizedRequests2 ==
  {PReq2(FALSE, FALSE, TRUE, <<>>), PReq2(TRUE, FALSE, TRUE, <<>>), PReq2(TRUE, TRUE, FALSE, <<>>)}
  \cup {PReq2(TRUE, TRUE, TRUE, <<r>>) : r \in PersonalizedRuns}

\* a location parameter: its text (None when the parameter is absent) and what
\* the text stands for: coordinates (given in millionths), the digits
\* of a 5-digit ZIP code, or neither
\* n millionths
Micro(n) == n * (Scale \div 1000000)

LocLatLon(raw, lat, lon) ==
  [kind |-> "latlon", raw |-> Some(raw), lat |-> Micro(lat), lon |-> Micro(lon)]
LocZip(raw, digits) == [kind |-> "zip", raw |-> Some(raw), digits |-> digits]
LocOther(raw) == [kind |-> "other", raw |-> raw]
NoLocation == LocOther(None)

\* "37.7749,-122.4194", "37.77495,-122.41945", " 40.7,-74 ", "-0.00001,5.",
\* "37.774912,-122.419449"
LatLonParams ==
  {LocLatLon(<<"3", "7", ".", "7", "7", "4", "9", ",", "-", "1", "2", "2", ".", "4", "1", "9", "4">>,
             37774900, -122419400),
   LocLatLon(<<"3", "7", ".", "7", "7", "4", "9", "5", ",",
               "-", "1", "2", "2", ".", "4", "1", "9", "4", "5">>,
             37774950, -122419450),
   LocLatLon(<<" ", "4", "0", ".", "7", ",", "-", "7", "4", " ">>, 40700000, -74000000),
   LocLatLon(<<"-", "0", ".", "0", "0", "0", "0", "1", ",", "5", ".">>, -10, 5000000),
   LocLatLon(<<"3", "7", ".", "7", "7", "4", "9", "1", "2", ",",
               "-", "1", "2", "2", ".", "4", "1", "9", "4", "4", "9">>,
             37774912, -122419449)}

\* "94110", " 02139 "
ZipParams ==
  {LocZip(<<"9", "4", "1", "1", "0">>, <<"9", "4", "1", "1", "0">>),
   LocZip(<<" ", "0", "2", "1", "3", "9", " ">>, <<"0", "2", "1", "3", "9">>)}

\* "94110-1234", "9411", "Paris", "40.7, -74", "12.5_7", "a_b", "", "  "
OtherParams ==
  {LocOther(Some(<<"9", "4", "1", "1", "0", "-", "1", "2", "3", "4">>)),
   LocOther(Some(<<"9", "4", "1", "1">>)),
   LocOther(Some(<<"P", "a", "r", "i", "s">>)),
   LocOther(Some(<<"4", "0", ".", "7", ",", " ", "-", "7", "4">>)),
   LocOther(Some(<<"1", "2", ".", "5", "_", "7">>)),
   LocOther(Some(<<"a", "_", "b">>)),
   LocOther(Some(<<>>)),
   LocOther(Some(<<" ", " ">>))}

LocationParams == LatLonParams \cup ZipParams \cup OtherParams

\* the date parameter: absent or malformed, or a YYYY-MM-DD string
NoDate == [iso |-> FALSE, val |-> <<>>]
IsoDate(day) == [iso |-> TRUE, val |-> toLocalDateStr(day)]
\* a start of the form dddd-dd-dd that names no calendar day: 2026-13-01
Month13 == [iso |-> TRUE, val |-> <<2026, 13, 1>>]

RiskDates == {IsoDate(Epoch), IsoDate(Epoch + 1)}

RObj(d, risk, factors, daily) ==
  [date |-> d, risk |-> risk, activeRiskFactors |-> factors, daily |-> daily]

HighRisk == [score |-> 4700, level |-> "high", label |-> "High"]

\* what predict_flare / predict_risk may print for date d: an error object,
\* a bare risk, a risk with factors and daily data, a risk with no factors
RiskObjects(d) ==
  {RObj(d, None, None, None),
   RObj(d, Some(fallbackByDate(d)), None, None),
   RObj(d, Some(HighRisk), Some(<<"pollen">>), Some("aqi")),
   RObj(d, Some(HighRisk), Some(<<>>), None)}

RiskFailingRuns(d) ==
  {Enoent, TimedOut(EmptyOut), Exited(1, EmptyOut, "Traceback"),
   Exited(1, ObjectOut(RObj(d, Some(HighRisk), Some(<<"pollen">>), Some("aqi"))), "Traceback")}

RiskRuns(d) ==
  RiskFailingRuns(d)
  \cup {Exited(0, o, "") : o \in {EmptyOut, GarbageOut}}
  \cup {Exited(0, ObjectOut(o), "") : o \in RiskObjects(d)}

RiskRunSeqs(d) ==
  {<<r>> : r \in RiskRuns(d)}
  \cup {<<f, r>> : f \in RiskFailingRuns(d), r \in RiskRuns(d)}
  \cup {<<f, g, r>> : f \in RiskFailingRuns(d), g \in RiskFailingRuns(d), r \in RiskRuns(d)}
  \cup {<<f, g, h, r>> : f \in RiskFailingRuns(d), g \in RiskFailingRuns(d),
                         h \in RiskFailingRuns(d), r \in RiskRuns(d)}

RReq(date, useFlare, win32, runs) ==
  [route |-> "risk", date |-> date, useFlare |-> useFlare, win32 |-> win32, runs |-> runs,
   location |-> NoLocation, location_id |-> NoLocation]

\* requests with a location or a location_id parameter: without a flare model
\* one run, with a flare model a failed run and then one of predict_risk
RiskLocatedRequests ==
  LET d     == IsoDate(Epoch)
      ok    == Exited(0, ObjectOut(RObj(d.val, Some(HighRisk), None, None)), "")
      plain == {RReq(d, FALSE, FALSE, <<ok>>), RReq(d, TRUE, FALSE, <<Exited(1, EmptyOut, "Traceback"), ok>>)}
  IN  {[rq EXCEPT !.location = l] : rq \in plain, l \in LocationParams}
      \cup {[rq EXCEPT !.location_id = l] : rq \in plain, l \in LocationParams}
      \cup {[rq EXCEPT !.location = l, !.location_id = CHOOSE z \in ZipParams : TRUE] :
              rq \in plain, l \in LatLonParams \cup OtherParams}

RiskRequests ==
  {RReq(NoDate, FALSE, FALSE, <<>>)}
  \cup RiskLocatedRequests
  \cup UNION {{RReq(d, f, w, runs) : f \in BOOLEAN, w \in BOOLEAN, runs \in RiskRunSeqs(d.val)} :
                d \in RiskDates}

\* the days parameter: absent, not a number, or an integer
DaysAbsent == [kind |-> "absent", n |-> 0]
DaysNaN == [kind |-> "nan", n |-> 0]
DaysInt(n) == [kind |-> "int", n |-> n]
DaysParams == {DaysAbsent, DaysNaN, DaysInt(0), DaysInt(3), DaysInt(20)}
StartParams == {NoDate, IsoDate(Epoch), IsoDate(Epoch + 1), Month13}

WDay(day, risk) ==
  [date |-> toLocalDateStr(day), risk |-> risk, activeRiskFactors |-> <<>>, daily |-> None]

WObj(isArray, items) ==
  [start |-> toLocalDateStr(Epoch), days |-> [isArray |-> isArray, items |-> items]]

WeekGoodObj ==
  WObj(TRUE, <<WDay(Epoch, Some([score |-> 2345, level |-> "moderate", label |-> "Moderate"])),
               WDay(Epoch + 1, Some([score |-> 4860, level |-> "high", label |-> "High"]))>>)

\* what predict_flare --week may print: no days array, an empty one, two
\* well-formed days, a day without a risk
WeekObjects ==
  {WObj(FALSE, <<>>), WObj(TRUE, <<>>), WeekGoodObj, WObj(TRUE, <<WDay(Epoch, None)>>)}

WeekRuns ==
  {Enoent, TimedOut(EmptyOut), Exited(1, EmptyOut, "Traceback"),
   Exited(1, ObjectOut(WeekGoodObj), "Traceback")}
  \cup {Exited(0, o, "") : o \in {EmptyOut, BlankOut, GarbageOut, ArrayOut(<<>>)}}
  \cup {Exited(0, ObjectOut(o), "") : o \in WeekObjects}

WReq(start, days, venv, runs) ==
  [route |-> "week", start |-> start, days |-> days, venv |-> venv, runs |-> runs,
   location |-> NoLocation, location_id |-> NoLocation]

WeekLocatedRequests ==
  LET ok    == Exited(0, ObjectOut(WeekGoodObj), "")
      plain == {WReq(NoDate, DaysAbsent, TRUE, <<ok>>),
                WReq(NoDate, DaysAbsent, FALSE, <<Exited(1, EmptyOut, "Traceback"), ok>>)}
  IN  {[rq EXCEPT !.location = l] : rq \in plain, l \in LocationParams}
      \cup {[rq EXCEPT !.location_id = l] : rq \in plain, l \in LocationParams}

WeekRequests ==
  WeekLocatedRequests \cup
  {WReq(s, d, TRUE, <<r>>) :
     s \in StartParams, d \in DaysParams,
     r \in {Exited(1, EmptyOut, "Traceback"), Exited(0, ObjectOut(WeekGoodObj), "")}}
  \cup {WReq(NoDate, DaysAbsent, v, <<r>>) : v \in BOOLEAN, r \in WeekRuns}
  \cup {WReq(NoDate, DaysAbsent, v, <<q, r>>) : v \in BOOLEAN, q \in WeekRuns, r \in WeekRuns}

\* ------------------------------------------------------- the user store

Emails == {"me@example.org", "other@example.org"}

\* String(doc._id)
UserId(email) == IF email = "me@example.org" THEN Me ELSE Other

\* a new document has no checkIns field; $push creates the array
NewUser == [checkIns |-> <<>>]

\* createOrUpdateUser: updateOne with upsert; $set leaves checkIns alone
createOrUpdateUser(us, email) ==
  IF IsSome(us[email]) THEN us ELSE [us EXCEPT ![email] = Some(NewUser)]

\* addCheckIn: updateOne({ email }, { $push: { checkIns: checkIn } }), no
\* upsert: nothing is written when no document has the email
addCheckIn(us, email, checkIn) ==
  IF IsSome(us[email])
  THEN [us EXCEPT ![email] = Some([checkIns |-> Append(Get(@).checkIns, checkIn)])]
  ELSE us

\* ---------------------------------------------- POST /api/users/check-in

\* a field of the JSON body where the handler expects a number (numbers are
\* in thousandths, as scores are)
JAbsent == [t |-> "absent", v |-> 0]
JNull == [t |-> "null", v |-> 0]
JString == [t |-> "string", v |-> 0]
JNumber(v) == [t |-> "number", v |-> v]

\* the date field of the body: absent or null, or the value given, which is
\* a YYYY-MM-DD string or something else
NotADate == [iso |-> FALSE, val |-> <<>>]
DateAbsent == [given |-> FALSE, v |-> NotADate]
DateGiven(d) == [given |-> TRUE, v |-> d]

\* typeof x === "number" ? x : 0
NumberOr0(f) == IF f.t = "number" THEN f.v ELSE 0

\* the largest symptom grade and the minutes of a day, in thousandths
MaxGrade == 3000
MaxMinutes == 1440000

\* the record the handler builds from the body; utcDay is the day of
\* new Date().toISOString().slice(0, 10)
CheckInOf(body, utcDay) ==
  [date            |-> IF body.date.given THEN body.date.v ELSE IsoDate(utcDay),
   wheeze          |-> Min2(MaxGrade, Max2(0, NumberOr0(body.wheeze))),
   cough           |-> Min2(MaxGrade, Max2(0, NumberOr0(body.cough))),
   chestTightness  |-> Min2(MaxGrade, Max2(0, NumberOr0(body.chestTightness))),
   exerciseMinutes |-> Min2(MaxMinutes, Max2(0, NumberOr0(body.exerciseMinutes)))]

\* the handler reaches addCheckIn and the database answers
CheckInStores(rq) == IsSome(rq.session) /\ rq.body.kind = "object" /\ rq.dbUp

\* the response: 401 without a session, 400 for a body that is not JSON, an
\* uncaught TypeError for the body null, 503 when the database call throws
CheckInResponse(rq) ==
  IF ~IsSome(rq.session) THEN [status |-> 401, src |-> "none", body |-> [error |-> "Unauthorized"]]
  ELSE IF rq.body.kind = "invalid"
  THEN [status |-> 400, src |-> "none", body |-> [error |-> "Invalid JSON"]]
  ELSE IF rq.body.kind = "null" THEN Threw
  ELSE IF ~rq.dbUp
  THEN [status |-> 503, src |-> "none", body |-> [error |-> "Database unavailable"]]
  ELSE [status |-> 200, src |-> "none", body |-> [ok |-> TRUE]]

\* the users collection after the request
CheckInUsers(us, rq) ==
  IF CheckInStores(rq) THEN addCheckIn(us, Get(rq.session), CheckInOf(rq.body, rq.utcDay)) ELSE us

\* ----------------------------------------------- POST /api/users/register

PROFILE_KEYS == {"name", "height", "weight", "gender", "smokerStatus", "petExposure", "bmi"}

\* the value of a key a JSON body does not have, and the stored null
Undefined == "undefined"
Null == "null"

\* a JSON body as the handler reads it: every profile key with its value or
\* Undefined
Body(fields) == [k \in PROFILE_KEYS |-> IF k \in DOMAIN fields THEN fields[k] ELSE Undefined]

\* if (body.k !== undefined) incoming.k = body.k, for each of the seven keys
Incoming(body) == {k \in PROFILE_KEYS : body[k] # Undefined}

\* getUserByEmail(email).profile: the stored profile, None without a
\* document or without the field
getUserByEmail(ps, email) == ps[email]

\* fullProfile: { ...existing?.profile, ...incoming } written out over
\* PROFILE_KEYS with null for every key that has no value
fullProfile(existing, body) ==
  [k \in PROFILE_KEYS |->
     IF body[k] # Undefined THEN body[k]
     ELSE IF IsSome(existing) THEN Get(existing)[k]
     ELSE Null]

\* createOrUpdateUser(email, {name, profile}): $set of the whole profile when
\* one is given (hasIncoming), of nothing in the profile otherwise
SetProfile(ps, email, existing, body) ==
  IF Incoming(body) # {} THEN [ps EXCEPT ![email] = Some(fullProfile(existing, body))] ELSE ps

\* where a handler stands: idle, between its read and its write of the
\* database ("read" before getUserByEmail, "write" before createOrUpdateUser)
\* or done with its response status
IdleRegistration ==
  [pc |-> "idle", email |-> "", body |-> Body(<<>>), existing |-> None, dbUp |-> TRUE, status |-> 0]

\* the two requests that can be in flight at once
Registrants == {1, 2}

RegisterBodies ==
  {Body(<<>>),
   Body([height |-> "170 cm"]), Body([height |-> "180 cm"]),
   Body([weight |-> "70 kg"]),
   Body([height |-> "170 cm", weight |-> "70 kg", bmi |-> "24.2"]),
   Body([gender |-> "female", smokerStatus |-> "never", petExposure |-> "cat"]),
   Body([name |-> "Ann"])}

\* [session, json, body, dbUp]: the session's email, whether the body parses
RegReq(session, json, body, dbUp) ==
  [session |-> session, json |-> json, body |-> body, dbUp |-> dbUp]

RegisterRequests ==
  {RegReq(Some(e), TRUE, b, TRUE) : e \in Emails, b \in RegisterBodies}
  \cup {RegReq(None, TRUE, Body([height |-> "170 cm"]), TRUE),
        RegReq(Some("me@example.org"), FALSE, Body(<<>>), TRUE),
        RegReq(Some("me@example.org"), TRUE, Body([height |-> "170 cm"]), FALSE)}

\* ------------------------------------------------------- the risk screens

\* the two components that show the week: the risk screen (loadWeek, GET
\* /api/week) and the personalized screen (loadPersonalized and
\* onProfileUpdated, GET /api/risk/personalized)
Screens == {"risk", "personalized"}

\* the locations useGeolocation hands the risk screen: none yet, or a place
ScreenLocations == {"", "37.42,-122.08", "94305"}

\* a request a screen has started: by its effect (abortable through the
\* effect's AbortController) or by the profile-updated listener; pending,
\* aborted while pending, or settled
ScreenRequest(by, location) == [by |-> by, location |-> location, state |-> "pending"]

\* useState: weekData an empty Map, fromModel null, weekLoading true; the
\* effect has run once and its request is in flight. weekData is None for the
\* empty Map and Some(r) for the Map made of the days request r was answered.
MountedScreen ==
  [weekData |-> None, fromModel |-> "null", weekLoading |-> TRUE, location |-> "",
   requests |-> <<ScreenRequest("effect", "")>>]

\* how a request ends: a 200 with the model's days, with synthetic days or
\* with a body without days and fromModel, a status that is not ok, or a
\* rejected fetch
FetchOutcomes == {"model", "synthetic", "nodays", "notok", "rejected"}

\* loadWeek after its fetch has ended: the try, catch and finally blocks
loadWeek(sc, r, outcome) ==
  LET shown == IF outcome = "model" THEN [sc EXCEPT !.weekData = Some(r), !.fromModel = "true"]
               ELSE IF outcome = "synthetic"
               THEN [sc EXCEPT !.weekData = Some(r), !.fromModel = "false"]
               ELSE IF outcome = "nodays"
               THEN [sc EXCEPT !.weekData = None, !.fromModel = "null"]
               ELSE [sc EXCEPT !.weekData = None]
  IN  [shown EXCEPT !.weekLoading = FALSE]

\* loadPersonalized after its fetch has ended
loadPersonalized(sc, r, outcome) ==
  LET shown == IF outcome = "model" THEN [sc EXCEPT !.weekData = Some(r), !.fromModel = "true"]
               ELSE IF outcome = "synthetic"
               THEN [sc EXCEPT !.weekData = Some(r), !.fromModel = "false"]
               ELSE [sc EXCEPT !.weekData = None, !.fromModel = "false"]
  IN  [shown EXCEPT !.weekLoading = FALSE]

\* onProfileUpdated after its fetch has ended: the then chain is skipped by
\* a rejection, finally runs in every case
onProfileUpdated(sc, r, outcome) ==
  LET shown == IF outcome = "model" THEN [sc EXCEPT !.weekData = Some(r), !.fromModel = "true"]
               ELSE IF outcome = "synthetic"
               THEN [sc EXCEPT !.weekData = Some(r), !.fromModel = "false"]
               ELSE IF outcome = "rejected" THEN sc
               ELSE [sc EXCEPT !.weekData = None, !.fromModel = "false"]
  IN  [shown EXCEPT !.weekLoading = FALSE]

\* the continuation of request r of screen s
Settled(s, sc, r, outcome) ==
  LET after == IF sc.requests[r].by = "profile-updated" THEN onProfileUpdated(sc, r, outcome)
               ELSE IF s = "risk" THEN loadWeek(sc, r, outcome)
               ELSE loadPersonalized(sc, r, outcome)
  IN  [after EXCEPT !.requests[r].state = "settled"]

\* return () => controller.abort(): the effect's pending request is aborted
AbortEffect(requests) ==
  [r \in 1..Len(requests) |->
     IF requests[r].by = "effect" /\ requests[r].state = "pending"
     THEN [requests[r] EXCEPT !.state = "aborted"] ELSE requests[r]]

\* ------------------------------------------------------ the feature builder

\* The prediction scripts are not part of the web application; the feature
\* builder is modelled from its contract: build joins the check-ins by
\* calendar date, the current fields from the check-in dated D and the lag
\* fields from the check-in dated D - 1, 0 where there is none.

\* the first check-in of the list dated day number d
FindCheckIn(checkIns, d) ==
  LET hits == SelectSeq(checkIns, LAMBDA c : c.date = IsoDate(d))
  IN  IF hits = <<>> THEN None ELSE Some(hits[1])

NoSymptoms == [wheeze |-> 0, cough |-> 0, chestTightness |-> 0, exerciseMinutes |-> 0]

SymptomsOf(found) ==
  IF IsSome(found)
  THEN [wheeze |-> Get(found).wheeze, cough |-> Get(found).cough,
        chestTightness |-> Get(found).chestTightness,
        exerciseMinutes |-> Get(found).exerciseMinutes]
  ELSE NoSymptoms

FeatureVector(user_id, D, cur, lag) ==
  [user_id |-> user_id, date |-> toLocalDateStr(D),
   wheeze |-> cur.wheeze, cough |-> cur.cough, chestTightness |-> cur.chestTightness,
   exerciseMinutes |-> cur.exerciseMinutes,
   symptom_score |-> cur.wheeze + cur.cough + cur.chestTightness,
   wheeze_lag1 |-> lag.wheeze, cough_lag1 |-> lag.cough,
   chestTightness_lag1 |-> lag.chestTightness, exerciseMinutes_lag1 |-> lag.exerciseMinutes,
   symptom_score_lag1 |-> lag.wheeze + lag.cough + lag.chestTightness]

\* the lag fields taken from the entry before the check-in of D in the list
build_ByPosition(user_id, checkIns, D) ==
  LET at  == {i \in 1..Len(checkIns) : checkIns[i].date = IsoDate(D)}
      i   == IF at = {} THEN Len(checkIns) + 1 ELSE CHOOSE k \in at : \A j \in at : k <= j
      lag == IF i > 1 THEN Some(checkIns[i - 1]) ELSE None
  IN  FeatureVector(user_id, D, SymptomsOf(FindCheckIn(checkIns, D)), SymptomsOf(lag))

\* build(profile, checkins, environmental, asOf), its symptom fields
build(user_id, checkIns, D) ==
  FeatureVector(user_id, D, SymptomsOf(FindCheckIn(checkIns, D)),
                SymptomsOf(FindCheckIn(checkIns, D - 1)))

\* ---------------------------------------- the check-in requests explored

\* 2026-02-08
Feb8 == 31 + 7

CheckInBody(date, wheeze, cough, chestTightness, exerciseMinutes) ==
  [kind |-> "object", date |-> date, wheeze |-> wheeze, cough |-> cough,
   chestTightness |-> chestTightness, exerciseMinutes |-> exerciseMinutes]

\* a wheeze grade on each of three consecutive days
DatedBodies ==
  {CheckInBody(DateGiven(IsoDate(d)), JNumber(w), JAbsent, JAbsent, JAbsent) :
     d \in Feb8..(Feb8 + 2), w \in {1000, 2000}}

\* no date, and one field that is out of range, fractional or not a number
UndatedBodies ==
  {CheckInBody(DateAbsent, w, JAbsent, JAbsent, JAbsent) :
     w \in {JAbsent, JNumber(-1000), JNumber(1500), JNumber(5000), JString}}
  \cup {CheckInBody(DateAbsent, JNumber(3000), JNumber(2500), JNull, JNumber(30500)),
        CheckInBody(DateAbsent, JNumber(0), JNumber(1000), JNumber(7000), JNumber(-5000)),
        CheckInBody(DateAbsent, JNumber(0), JNumber(0), JNumber(0), JNumber(2000000)),
        CheckInBody(DateGiven(NotADate), JNumber(1000), JAbsent, JAbsent, JAbsent)}

NotJson == [kind |-> "invalid"]
NullBody == [kind |-> "null"]

CReq(session, body, dbUp, utcDay) ==
  [route |-> "check-in", session |-> session, body |-> body, dbUp |-> dbUp, utcDay |-> utcDay]

CheckInRequests(today) ==
  {CReq(Some("me@example.org"), b, TRUE, today) : b \in DatedBodies \cup UndatedBodies}
  \cup {CReq(Some("me@example.org"), CheckInBody(DateAbsent, JAbsent, JAbsent, JAbsent, JAbsent),
             TRUE, today + 1)}
  \cup {CReq(Some("me@example.org"), b, TRUE, today) : b \in {NotJson, NullBody}}
  \cup {CReq(u, CheckInBody(DateGiven(IsoDate(Feb8)), JNumber(3000), JAbsent, JAbsent, JAbsent), up, today) :
          u \in {None, Some("me@example.org"), Some("other@example.org")}, up \in BOOLEAN}

\* the dates feature vectors are built for
FeatureDates == (Feb8 + 1)..(Feb8 + 3)

\* ------------------------------------------------------ the prediction cache

\* The cache is written by the prediction scripts, which are not part of the
\* web application; it is modelled from its contract: upsert(user_id, date,
\* score, timestamp) is last-write-wins on the key (user_id, date).

PredictionRecord(user_id, day, risk, updated_at) ==
  [user_id |-> user_id, date |-> toLocalDateStr(day), risk |-> risk, updated_at |-> updated_at]

SameKey(a, b) == a.user_id = b.user_id /\ a.date = b.date

\* an insert that takes no notice of a record already stored under the key
upsert_Insert(c, rec) == c \cup {rec}

\* upsert: the record replaces the one stored under its key, if any
upsert(c, rec) == {r \in c : ~SameKey(r, rec)} \cup {rec}

\* the records are upserted in order
RECURSIVE upsertAll(_, _)
upsertAll(c, recs) == IF recs = <<>> THEN c ELSE upsertAll(upsert(c, Head(recs)), Tail(recs))

\* forecast(user, days, referenceDate) of one orchestrator pass: `days`
\* consecutive dates from the reference date, with the scores of a pattern
forecast(user_id, days, referenceDate, pattern) ==
  [i \in 1..days |->
     PredictionRecord(user_id, referenceDate + i - 1, pattern[((i - 1) % Len(pattern)) + 1],
                      referenceDate)]

\* the orchestrator passes explored: the user, the number of days and the
\* pattern of scores
OrchestratorRuns ==
  {[user_id |-> Me, days |-> d, pattern |-> p] :
     d \in {1, Days}, p \in {<<4200>>, <<1000, 2600, 5000>>}}
  \cup {[user_id |-> Other, days |-> Days, pattern |-> <<4200>>]}

\* ------------------------------------------------------------------- BMI

BmiScale == Pow10(BmiDigits)

\* a * b / c, dividing first so that no product leaves the integers of TLC
MulDiv(a, b, c) == (a \div c) * b + ((a % c) * b) \div c

\* parseFloat of a string without a sign, in units of 1 / BmiScale
parseFloatBmi(str) ==
  LET s    == TrimLeft(str)
      neg  == s # <<>> /\ Head(s) = "-"
      body == IF neg THEN Tail(s) ELSE s
      n    == DigitRun(body)
      rest == SubSeq(body, n + 1, Len(body))
      m    == IF rest # <<>> /\ Head(rest) = "." THEN DigitRun(Tail(rest)) ELSE 0
      mag  == DigitsValue(SubSeq(body, 1, n)) * BmiScale
                + DigitsValue(SubSeq(body, n + 2, n + 1 + m)) * Pow10(BmiDigits - m)
  IN  IF n + m = 0 THEN None ELSE Some(IF neg THEN -mag ELSE mag)

\* the /i flag, for the letters of the units
UpperChars == <<"C", "M", "K", "G", "L", "B", "S", "I", "N">>
LowerChars == <<"c", "m", "k", "g", "l", "b", "s", "i", "n">>
ToLower(s) ==
  [k \in 1..Len(s) |->
     IF \E i \in 1..Len(UpperChars) : UpperChars[i] = s[k]
     THEN LowerChars[CHOOSE i \in 1..Len(UpperChars) : UpperChars[i] = s[k]]
     ELSE s[k]]

\* the length of the prefix matched by \d+(?:\.\d+)?, 0 when there is none
NumberPrefix(s) ==
  LET n    == DigitRun(s)
      rest == SubSeq(s, n + 1, Len(s))
      m    == IF rest # <<>> /\ Head(rest) = "." THEN DigitRun(Tail(rest)) ELSE 0
  IN  IF n = 0 THEN 0 ELSE IF m > 0 THEN n + 1 + m ELSE n

\* s.match(/^(\d+(?:\.\d+)?)\s*<unit>$/i), for a unit out of units: the number
\* matched, None without a match
MatchUnit(s, units) ==
  LET n == NumberPrefix(s)
  IN  IF n > 0 /\ ToLower(TrimLeft(SubSeq(s, n + 1, Len(s)))) \in units
      THEN Some(SubSeq(s, 1, n)) ELSE None

\* ['’]?\s* (the model's strings hold no typographic quotes)
AfterFootMark(s) ==
  LET r == TrimLeft(s) IN TrimLeft(IF r # <<>> /\ Head(r) = "'" THEN Tail(r) ELSE r)

\* what follows k digits of feet matches \s*['’]?\s*(\d+(?:\.\d+)?)\s*(?:["”]|in\.?)?$
InchesAfter(s, k) ==
  LET r == AfterFootMark(SubSeq(s, k + 1, Len(s)))
      n == NumberPrefix(r)
  IN  /\ n > 0
      /\ ToLower(TrimLeft(SubSeq(r, n + 1, Len(r))))
           \in {<<>>, <<"\"">>, <<"i", "n">>, <<"i", "n", ".">>}

\* s.match(/^(\d+)\s*['’]?\s*(\d+(?:\.\d+)?)\s*(?:["”]|in\.?)?$/i):
\* the feet take as many digits as leave a match for the inches
FtInMatch(s) ==
  LET ks == {k \in 1..DigitRun(s) : InchesAfter(s, k)}
  IN  IF ks = {} THEN None
      ELSE LET k == CHOOSE x \in ks : \A y \in ks : y <= x
               r == AfterFootMark(SubSeq(s, k + 1, Len(s)))
           IN  Some([ft |-> SubSeq(s, 1, k), inch |-> SubSeq(r, 1, NumberPrefix(r))])

\* s.match(/^(\d+)\s*['’]?\s*$/i)
FtOnlyMatch(s) ==
  LET n == DigitRun(s)
  IN  IF n > 0 /\ AfterFootMark(SubSeq(s, n + 1, Len(s))) = <<>> THEN Some(SubSeq(s, 1, n))
      ELSE None

parseHeightToMeters(height) ==
  LET s         == Trim(height)
      cmMatch   == MatchUnit(s, {<<"c", "m">>})
      mMatch    == MatchUnit(s, {<<"m">>})
      ftInMatch == FtInMatch(s)
      ftOnly    == FtOnlyMatch(s)
  IN  IF s = <<>> THEN None
      ELSE IF IsSome(cmMatch)
      THEN LET cm == Get(parseFloatBmi(Get(cmMatch)))
           IN  IF cm > 0 /\ cm < 300 * BmiScale THEN Some(cm \div 100) ELSE None
      ELSE IF IsSome(mMatch)
      THEN LET m == Get(parseFloatBmi(Get(mMatch)))
           IN  IF m > 0 /\ m < 3 * BmiScale THEN Some(m) ELSE None
      ELSE IF IsSome(ftInMatch)
      THEN LET ft   == DigitsValue(Get(ftInMatch).ft)
               inch == Get(parseFloatBmi(Get(ftInMatch).inch))
           IN  IF ft >= 2 /\ ft <= 8 /\ inch >= 0 /\ inch < 12 * BmiScale
               THEN Some(MulDiv(ft * BmiScale, 3048, 10000) + MulDiv(inch, 254, 10000))
               ELSE None
      ELSE IF IsSome(ftOnly)
      THEN LET ft == DigitsValue(Get(ftOnly))
           IN  IF ft >= 2 /\ ft <= 8 THEN Some(MulDiv(ft * BmiScale, 3048, 10000)) ELSE None
      ELSE None

\* lbs / 2.205 is lbs * 200 / 441
parseWeightToKg(weight) ==
  LET s        == Trim(weight)
      kgMatch  == MatchUnit(s, {<<"k", "g">>})
      lbsMatch == MatchUnit(s, {<<>>, <<"l", "b">>, <<"l", "b", "s">>})
      num      == parseFloatBmi(s)
  IN  IF s = <<>> THEN None
      ELSE IF IsSome(kgMatch)
      THEN LET kg == Get(parseFloatBmi(Get(kgMatch)))
           IN  IF kg > 0 /\ kg < 500 * BmiScale THEN Some(kg) ELSE None
      ELSE IF IsSome(lbsMatch)
      THEN LET lbs == Get(parseFloatBmi(Get(lbsMatch)))
           IN  IF lbs > 0 /\ lbs < 1500 * BmiScale THEN Some(MulDiv(lbs, 200, 441)) ELSE None
      ELSE IF ~IsSome(num) \/ Get(num) <= 0 THEN None
      ELSE IF Get(num) < 150 * BmiScale
      THEN (IF Get(num) < 300 * BmiScale THEN num ELSE None)
      ELSE Some(MulDiv(Get(num), 200, 441))

\* the BMI in thousandths, of a height and a weight taken to thousandths
computeBmi(heightM, weightKg) ==
  IF ~IsSome(heightM) \/ ~IsSome(weightKg) \/ Get(heightM) <= 0 THEN None
  ELSE LET h     == Get(heightM) \div (BmiScale \div 1000)
           w     == Get(weightKg) \div (BmiScale \div 1000)
           value == MulDiv(MulDiv(w, 1000, h), 1000, h)
       IN  IF value > 10000 /\ value < 80000 THEN Some(((value + 50) \div 100) * 100)
           ELSE None

\* ------------------------------------------------ the BMI inputs explored

Heights ==
  {<<"5", "'", "8", "\"">>,
   <<"5", "'", " ", "8", "\"">>,
   <<"1", "7", "3", " ", "c", "m">>,
   <<"1", "7", "3", "C", "M">>,
   <<"1", ".", "7", "3", " ", "m">>,
   <<"5", "8">>,
   <<"5", "1", "1">>,
   <<"5", "'">>,
   <<"9", "'">>,
   <<"4", "0", "0", " ", "c", "m">>,
   <<"0", " ", "c", "m">>,
   <<"1", ".", "7", "3">>,
   <<"t", "a", "l", "l">>,
   <<>>,
   <<"5", "'", "1", "3", "\"">>,
   <<"5", " ", "8", " ", "i", "n">>}

Weights ==
  {<<"6", "8", " ", "k", "g">>,
   <<"6", "8", "K", "G">>,
   <<"1", "5", "0", " ", "l", "b", "s">>,
   <<"1", "5", "0", " ", "l", "b">>,
   <<"1", "5", "0">>,
   <<"6", "0", "0", " ", "k", "g">>,
   <<"1", "6", "0", "0", " ", "l", "b", "s">>,
   <<"0", " ", "k", "g">>,
   <<"7", "0", " ", "p", "o", "u", "n", "d", "s">>,
   <<"1", "6", "0", "0", " ", "p", "o", "u", "n", "d", "s">>,
   <<"h", "e", "a", "v", "y">>,
   <<>>,
   <<"-", "5">>,
   <<"1", "5", "0", ".", "5", " ", "l", "b", "s">>}

\* ------------------------------------------ GET /api/recommendations

RATE_LIMIT_WINDOW_MS == 60000
RATE_LIMIT_MAX == 10

\* request.headers.get("x-forwarded-for") || "unknown"
RateLimitKey(forwardedFor) ==
  IF IsSome(forwardedFor) /\ Get(forwardedFor) # "" THEN Get(forwardedFor) ELSE "unknown"

\* if (!entry || now - entry.start > RATE_LIMIT_WINDOW_MS) entry = {count: 1,
\* start: now} else entry.count++
RateLimitEntry(entry, t) ==
  IF ~IsSome(entry) \/ t - Get(entry).start > RATE_LIMIT_WINDOW_MS
  THEN [count |-> 1, start |-> t]
  ELSE [Get(entry) EXCEPT !.count = @ + 1]

\* rateLimitMap.set(ip, entry)
RateLimitSet(m, rq, t) ==
  LET ip == RateLimitKey(rq.forwardedFor)
  IN  [m EXCEPT ![ip] = Some(RateLimitEntry(m[ip], t))]

\* GET /api/recommendations: the limiter, the API key, the parameters, and
\* the recommendations (Gemini's, or the static ones when it fails)
RecommendationsResponse(m, rq, t) ==
  IF Get(RateLimitSet(m, rq, t)[RateLimitKey(rq.forwardedFor)]).count > RATE_LIMIT_MAX
  THEN [status |-> 429, src |-> "none",
        body |-> [error |-> "Rate limit exceeded. Please try again later."]]
  ELSE IF ~rq.apiKeyOk
  THEN [status |-> 401, src |-> "none", body |-> [error |-> "Unauthorized: invalid API key."]]
  ELSE IF ~rq.paramsOk
  THEN [status |-> 400, src |-> "none", body |-> [error |-> "Missing or invalid parameter"]]
  ELSE [status |-> 200, src |-> "none", body |-> [recommendations |-> "recommendations"]]

\* ------------------------------------- the recommendation requests explored

\* the clients: one behind a proxy that sets x-forwarded-for to the client's
\* address, two whose requests reach the server without the header
ClientIps == {"203.0.113.7", "198.51.100.1", "198.51.100.2"}
Proxied == {"203.0.113.7"}
ForwardedFor(ip) == IF ip \in Proxied THEN Some(ip) ELSE None

RateLimitKeys == {RateLimitKey(ForwardedFor(ip)) : ip \in ClientIps}

\* the instants of the clock explored: around the end of a window
Instants == {0, RATE_LIMIT_WINDOW_MS, RATE_LIMIT_WINDOW_MS + 1}

RecReq(ip, apiKeyOk, paramsOk) ==
  [route |-> "recommendations", ip |-> ip, forwardedFor |-> ForwardedFor(ip),
   apiKeyOk |-> apiKeyOk, paramsOk |-> paramsOk]

RecommendationRequests ==
  {RecReq(ip, TRUE, TRUE) : ip \in ClientIps}
  \cup {RecReq("203.0.113.7", FALSE, TRUE), RecReq("203.0.113.7", TRUE, FALSE)}

\* the window of a client after its request at time t: a window opens with the
\* client's first request and with its first more than 60 s after the start
ClientWindow(w, t, passed) ==
  IF ~IsSome(w) \/ t - Get(w).start > RATE_LIMIT_WINDOW_MS
  THEN [start |-> t, seen |-> 1, passed |-> IF passed THEN 1 ELSE 0]
  ELSE [start |-> Get(w).start, seen |-> Get(w).seen + 1,
        passed |-> Get(w).passed + (IF passed THEN 1 ELSE 0)]

\* ------------------------------------------------------------ the cron jobs

\* the secret check where an unset CRON_SECRET lets every request in
CronUnauthorized_UnsetIsOpen(rq) ==
  IsSome(rq.cronSecret) /\ rq.secretParam # rq.cronSecret /\ rq.bearerSecret # rq.cronSecret

\* !cronSecret || (secretParam !== cronSecret && bearerSecret !== cronSecret)
CronUnauthorized(rq) ==
  \/ ~IsSome(rq.cronSecret)
  \/ rq.cronSecret = Some("")
  \/ rq.secretParam # rq.cronSecret /\ rq.bearerSecret # rq.cronSecret

\* sendHighRiskAlert: without RESEND_API_KEY nothing is sent; otherwise the
\* result of resend.emails.send, which reports a failure in its `error`
sendHighRiskAlert(resendKey, send) ==
  IF ~resendKey THEN [ok |-> FALSE, error |-> Some("RESEND_API_KEY not configured")]
  ELSE IF send.error THEN [ok |-> FALSE, error |-> Some("send failed")]
  ELSE [ok |-> TRUE, error |-> None]

\* the week request the job sends for a user: start = tomorrow, days = 1,
\* location = the user's
CronWeekRequest(user, today, runs) ==
  [WReq(IsoDate(today + 1), DaysInt(1), TRUE, runs) EXCEPT !.location = user.location]

\* what GET /api/week answers to it
WeekAnswer(user, week, today) == WeekResponse(CronWeekRequest(user, today, week.runs), today)

\* the level of data?.days?.[0]?.risk, None when there is none
FirstDayLevel(data) ==
  IF Len(data.days) >= 1 THEN Some(data.days[1].risk.level) ELSE None

\* riskLevel after the try block, when no exception and no bad status ended the
\* turn of the loop
RiskLevel(user, week, today) ==
  IF week.kind = "served" THEN FirstDayLevel(WeekAnswer(user, week, today).body) ELSE None

\* the alert goes out at every level but low
ShouldAlert_NotLow(riskLevel) == riskLevel # Some("low")

\* if (riskLevel !== "high") ... continue
ShouldAlert(riskLevel) == riskLevel = Some("high")

\* the week request did not come to a JSON answer: fetch threw, the status was
\* not OK, or res.json() threw
WeekFailed(user, week, today) ==
  \/ week.kind \in {"unreachable", "status", "notjson"}
  \/ week.kind = "served" /\ WeekAnswer(user, week, today).status # 200

\* one turn of the loop of the daily high-risk job where an exception of the
\* week request is not caught: the entry, or None when the loop is left
HighRiskEntry_Uncaught(user, o, resendKey, today) ==
  IF o.week.kind \in {"unreachable", "notjson"} THEN None
  ELSE IF WeekFailed(user, o.week, today)
  THEN Some([email |-> user.email, sent |-> FALSE, error |-> Some("week API 500")])
  ELSE IF ~ShouldAlert(RiskLevel(user, o.week, today))
  THEN Some([email |-> user.email, sent |-> FALSE, error |-> None])
  ELSE LET sendResult == sendHighRiskAlert(resendKey, o.send)
       IN  Some([email |-> user.email, sent |-> sendResult.ok, error |-> sendResult.error])

\* one turn of the loop of the daily high-risk job: the entry pushed for the
\* user, given what the week request and the send come to
HighRiskEntry(user, o, resendKey, today) ==
  IF o.week.kind = "unreachable"
  THEN Some([email |-> user.email, sent |-> FALSE, error |-> Some("fetch failed")])
  ELSE IF o.week.kind = "notjson"
  THEN Some([email |-> user.email, sent |-> FALSE, error |-> Some("Unexpected token")])
  ELSE IF WeekFailed(user, o.week, today)
  THEN Some([email |-> user.email, sent |-> FALSE, error |-> Some("week API 500")])
  ELSE IF ~ShouldAlert(RiskLevel(user, o.week, today))
  THEN Some([email |-> user.email, sent |-> FALSE, error |-> None])
  ELSE LET sendResult == sendHighRiskAlert(resendKey, o.send)
       IN  Some([email |-> user.email, sent |-> sendResult.ok, error |-> sendResult.error])

\* the calls of that turn: the week request, and the mail handed to Resend
\* when the level asks for the alert and there is an API key
HighRiskCalls(user, o, resendKey, today) ==
  <<[kind |-> "week", email |-> user.email, start |-> toLocalDateStr(today + 1), days |-> 1,
     location |-> user.location]>>
  \o (IF /\ ~WeekFailed(user, o.week, today)
         /\ ShouldAlert(RiskLevel(user, o.week, today))
         /\ resendKey
      THEN <<[kind |-> "email", to |-> user.email, date |-> toLocalDateStr(today + 1)]>>
      ELSE <<>>)

\* for (const user of users): the results and the calls made, and whether the
\* loop ran to its end
RECURSIVE HighRiskLoop(_, _, _, _, _, _)
HighRiskLoop(us, outcomes, resendKey, today, results, made) ==
  IF us = <<>> THEN [results |-> results, calls |-> made, done |-> TRUE]
  ELSE LET entry == HighRiskEntry(Head(us), Head(outcomes), resendKey, today)
           after == made \o HighRiskCalls(Head(us), Head(outcomes), resendKey, today)
       IN  IF IsSome(entry)
           THEN HighRiskLoop(Tail(us), Tail(outcomes), resendKey, today,
                             Append(results, Get(entry)), after)
           ELSE [results |-> results, calls |-> after, done |-> FALSE]

LoadUsersCall == [kind |-> "loadUsers"]

\* GET /api/cron/daily-high-risk: the response and the calls made on the way
CronHighRisk(rq, today) ==
  IF CronUnauthorized(rq)
  THEN [resp |-> [status |-> 401, src |-> "none", body |-> [error |-> "Unauthorized"]],
        calls |-> <<>>]
  ELSE IF ~rq.baseUrl
  THEN [resp |-> [status |-> 500, src |-> "none",
                  body |-> [error |-> "NEXTAUTH_URL not set; cannot call week API"]],
        calls |-> <<>>]
  ELSE IF ~rq.loaded
  THEN [resp |-> [status |-> 500, src |-> "none", body |-> [error |-> "Failed to load users"]],
        calls |-> <<LoadUsersCall>>]
  ELSE LET loop == HighRiskLoop(rq.users, rq.outcomes, rq.resendKey, today, <<>>,
                                <<LoadUsersCall>>)
       IN  IF ~loop.done THEN [resp |-> Threw, calls |-> loop.calls]
           ELSE [resp |-> [status |-> 200, src |-> "none",
                           body |-> [date |-> toLocalDateStr(today + 1),
                                     usersChecked |-> Len(rq.users),
                                     results |-> loop.results]],
                 calls |-> loop.calls]

CronHighRiskResponse(rq, today) == CronHighRisk(rq, today).resp

\* one turn of the loop of the morning notification job
MorningEntry(user, o) ==
  IF Trim(user.emailChars) = <<>>
  THEN [email |-> user.email, sent |-> FALSE, error |-> Some("No email")]
  ELSE [email |-> user.email, sent |-> ~o.send.error,
        error |-> IF o.send.error THEN Some("send failed") ELSE None]

\* the mails of the morning job: one to every user with an email
RECURSIVE MorningCalls(_, _)
MorningCalls(us, today) ==
  IF us = <<>> THEN <<>>
  ELSE (IF Trim(Head(us).emailChars) = <<>> THEN <<>>
        ELSE <<[kind |-> "email", to |-> Head(us).email, date |-> toLocalDateStr(today)]>>)
       \o MorningCalls(Tail(us), today)

\* GET /api/cron/daily-morning-notification
CronMorningResponse(rq, today) ==
  IF CronUnauthorized(rq) THEN [status |-> 401, src |-> "none", body |-> [error |-> "Unauthorized"]]
  ELSE IF ~rq.loaded
  THEN [status |-> 500, src |-> "none", body |-> [error |-> "Failed to load users"]]
  ELSE [status |-> 200, src |-> "none",
        body |-> [date |-> toLocalDateStr(today), usersNotified |-> Len(rq.users),
                  results |-> [k \in 1..Len(rq.users) |-> MorningEntry(rq.users[k], rq.outcomes[k])]]]

CronMorningCalls(rq, today) ==
  IF CronUnauthorized(rq) THEN <<>>
  ELSE IF ~rq.loaded THEN <<LoadUsersCall>>
  ELSE <<LoadUsersCall>> \o MorningCalls(rq.users, today)

\* ------------------------------------------------ the cron requests explored

\* the users a job loads, each at a ZIP code; BlankUser has a blank email
CronUser(email, emailChars) ==
  [email |-> email, emailChars |-> emailChars,
   location |-> LocZip(<<"9", "4", "1", "1", "0">>, <<"9", "4", "1", "1", "0">>)]
CronUsers ==
  <<CronUser("a@example.org", <<"a">>), CronUser("b@example.org", <<"b">>),
    CronUser("c@example.org", <<"c">>), CronUser("d@example.org", <<"d">>),
    CronUser("e@example.org", <<"e">>)>>
BlankUser == CronUser(" ", <<" ">>)

\* predict_flare --week printing one day, of the level given
WeekOneDay(level, label) ==
  WObj(TRUE, <<WDay(Epoch + 1, Some([score |-> IF level = "high" THEN 4860 ELSE 2345,
                                     level |-> level, label |-> label]))>>)

\* the runs of the week route behind the job: a failing one (the fallback is
\* served), and runs printing no day, a moderate day, a high day
CronWeekRuns ==
  {<<Exited(1, EmptyOut, "Traceback")>>,
   <<Exited(0, ObjectOut(WObj(TRUE, <<>>)), "")>>,
   <<Exited(0, ObjectOut(WeekOneDay("moderate", "Moderate")), "")>>,
   <<Exited(0, ObjectOut(WeekOneDay("high", "High")), "")>>}

\* what the week request of one user comes to, and the send after it
WeekOutcome(kind, runs) == [kind |-> kind, runs |-> runs]
UserOutcome(week, sendError) == [week |-> week, send |-> [error |-> sendError]]

UserOutcomes ==
  {UserOutcome(WeekOutcome(k, <<>>), FALSE) : k \in {"unreachable", "status", "notjson"}}
  \cup {UserOutcome(WeekOutcome("served", r), FALSE) : r \in CronWeekRuns}
  \cup {UserOutcome(WeekOutcome("served", <<Exited(0, ObjectOut(WeekOneDay("high", "High")), "")>>),
                    TRUE)}

RECURSIVE OutcomeSeqs(_)
OutcomeSeqs(n) ==
  IF n = 0 THEN {<<>>} ELSE {Append(s, o) : s \in OutcomeSeqs(n - 1), o \in UserOutcomes}

CronReq(route, cronSecret, secretParam, bearerSecret, baseUrl, loaded, resendKey, us, outcomes) ==
  [route |-> route, cronSecret |-> cronSecret, secretParam |-> secretParam,
   bearerSecret |-> bearerSecret, baseUrl |-> baseUrl, loaded |-> loaded,
   resendKey |-> resendKey, users |-> us, outcomes |-> outcomes]

\* a user at high risk whose mail goes through
HighAndSent ==
  UserOutcome(WeekOutcome("served", <<Exited(0, ObjectOut(WeekOneDay("high", "High")), "")>>),
              FALSE)

\* every pairing of CRON_SECRET with the secrets of a request, before one
\* user at high risk; requests that end before the loop; batches of up to
\* MaxUsers users
CronRequests(route) ==
  {CronReq(route, c, p, b, TRUE, TRUE, TRUE, <<CronUsers[1]>>, <<HighAndSent>>) :
     c \in {None, Some(""), Some("s3cret")},
     p \in {None, Some(""), Some("s3cret"), Some("guess")},
     b \in {None, Some("s3cret"), Some("guess")}}
  \cup {CronReq(route, Some("s3cret"), Some("s3cret"), None, u, l, TRUE,
                <<CronUsers[1]>>, <<HighAndSent>>) : u \in BOOLEAN, l \in BOOLEAN}
  \cup UNION {{CronReq(route, Some("s3cret"), None, Some("s3cret"), TRUE, TRUE, TRUE,
                       SubSeq(CronUsers, 1, n), os) : os \in OutcomeSeqs(n)} : n \in 0..MaxUsers}
  \cup {CronReq(route, Some("s3cret"), None, Some("s3cret"), TRUE, TRUE, k,
                <<CronUsers[1], BlankUser, CronUsers[2]>>, <<o, o, o>>) :
          k \in BOOLEAN, o \in UserOutcomes}

\* ------------------------------------------------------------ the system

NoReq == [route |-> "none"]
NoResp == [route |-> "none"]

\* the (date, score, level) triples of a synthetic response
SynthEntries(r) ==
  IF r.route = "risk"
  THEN {[date |-> r.body.date, score |-> r.body.risk.score, level |-> r.body.risk.level]}
  ELSE {[date |-> r.body.days[i].date, score |-> r.body.days[i].risk.score,
         level |-> r.body.days[i].risk.level] : i \in 1..Len(r.body.days)}

Init ==
  /\ now = Epoch
  /\ req = NoReq
  /\ resp = NoResp
  /\ lastSynth = {}
  /\ spawned = <<>>
  /\ users = [e \in Emails |-> None]
  /\ cache = {}
  /\ calls = <<>>
  /\ clock = 0
  /\ rateLimitMap = [k \in RateLimitKeys |-> None]
  /\ windows = [ip \in ClientIps |-> None]
  /\ profiles = [e \in Emails |-> None]
  /\ regs = [p \in Registrants |-> IdleRegistration]
  /\ screens = [s \in Screens |-> MountedScreen]

\* GET /api/risk/personalized, from the request to the response
PersonalizedGET ==
  /\ resp = NoResp
  /\ \E rq \in PersonalizedRequests :
       /\ PersonalizedSpawns(rq) = Len(rq.runs)
       /\ req' = rq
       /\ resp' = [route |-> "personalized"] @@ PersonalizedResponse(rq, now)
       /\ spawned' = PersonalizedArgs(rq)
  /\ UNCHANGED <<now, lastSynth, users, cache, calls, clock, rateLimitMap, windows, profiles, regs, screens>>

\* GET /api/risk/personalized as the file's second copy defines it
PersonalizedGET2 ==
  /\ resp = NoResp
  /\ \E rq \in PersonalizedRequests2 :
       /\ (IF rq.session /\ rq.account /\ rq.scriptExists THEN 1 ELSE 0) = Len(rq.runs)
       /\ req' = rq
       /\ resp' = [route |-> "personalized"] @@ PersonalizedResponse2(rq, now)
       /\ spawned' = PersonalizedArgs2(rq)
  /\ UNCHANGED <<now, lastSynth, users, cache, calls, clock, rateLimitMap, windows, profiles, regs, screens>>

\* GET /api/risk?date=...
RiskGET ==
  /\ resp = NoResp
  /\ \E rq \in RiskRequests :
       /\ RiskSpawns(rq) = Len(rq.runs)
       /\ req' = rq
       /\ resp' = [route |-> "risk"] @@ RiskResponse(rq)
       /\ spawned' = RiskArgs(rq)
  /\ UNCHANGED <<now, lastSynth, users, cache, calls, clock, rateLimitMap, windows, profiles, regs, screens>>

\* GET /api/week?start=...&days=...
WeekGET ==
  /\ resp = NoResp
  /\ \E rq \in WeekRequests :
       /\ WeekSpawns(rq) = Len(rq.runs)
       /\ req' = rq
       /\ resp' = [route |-> "week"] @@ WeekResponse(rq, now)
       /\ spawned' = WeekArgs(rq, now)
  /\ UNCHANGED <<now, lastSynth, users, cache, calls, clock, rateLimitMap, windows, profiles, regs, screens>>

\* the response is sent; the client keeps the synthetic days it was given
Deliver ==
  /\ resp # NoResp
  /\ resp' = NoResp
  /\ req' = NoReq
  /\ lastSynth' = IF resp.src = "synthetic" THEN SynthEntries(resp) ELSE lastSynth
  /\ spawned' = <<>>
  /\ calls' = <<>>
  /\ UNCHANGED <<now, users, cache, clock, rateLimitMap, windows, profiles, regs, screens>>

\* midnight passes
Tick ==
  /\ resp = NoResp
  /\ now < Epoch + MaxDay
  /\ now' = now + 1
  /\ UNCHANGED <<req, resp, lastSynth, spawned, users, cache, calls, clock, rateLimitMap, windows, profiles, regs, screens>>

\* a sign-in or registration writes the user's document
CreateOrUpdateUser ==
  /\ resp = NoResp
  /\ \E email \in Emails :
       /\ ~IsSome(users[email])
       /\ users' = createOrUpdateUser(users, email)
  /\ UNCHANGED <<now, req, resp, lastSynth, spawned, cache, calls, clock, rateLimitMap, windows, profiles, regs, screens>>

\* POST /api/users/check-in
CheckInPOST ==
  /\ resp = NoResp
  /\ \E rq \in CheckInRequests(now) :
       /\ CheckInStores(rq) /\ IsSome(users[Get(rq.session)])
            => Len(Get(users[Get(rq.session)]).checkIns) < MaxCheckIns
       /\ req' = rq
       /\ resp' = [route |-> "check-in"] @@ CheckInResponse(rq)
       /\ users' = CheckInUsers(users, rq)
  /\ UNCHANGED <<now, lastSynth, spawned, cache, calls, clock, rateLimitMap, windows, profiles, regs, screens>>

\* the feature builder is run for a user and a date
BuildFeatures ==
  /\ resp = NoResp
  /\ \E email \in Emails, D \in FeatureDates :
       /\ IsSome(users[email])
       /\ req' = [route |-> "features", email |-> email, date |-> D]
       /\ resp' = [route |-> "features", status |-> 200, src |-> "none",
                   body |-> build(UserId(email), Get(users[email]).checkIns, D)]
  /\ UNCHANGED <<now, lastSynth, spawned, users, cache, calls, clock, rateLimitMap, windows, profiles, regs, screens>>

\* one pass of the forecast orchestrator for a user: each day's record is
\* upserted into the cache
OrchestratorRun ==
  /\ resp = NoResp
  /\ \E run \in OrchestratorRuns :
       LET recs == forecast(run.user_id, run.days, now, run.pattern)
       IN  /\ req' = [route |-> "orchestrator", records |-> recs, before |-> cache]
           /\ cache' = upsertAll(cache, recs)
           /\ resp' = [route |-> "orchestrator", status |-> 0, src |-> "none", body |-> recs]
  /\ UNCHANGED <<now, lastSynth, spawned, users, calls, clock, rateLimitMap, windows, profiles, regs, screens>>

\* GET /api/cron/daily-high-risk
CronHighRiskGET ==
  /\ resp = NoResp
  /\ \E rq \in CronRequests("cron-high-risk") :
       /\ req' = rq
       /\ resp' = [route |-> "cron-high-risk"] @@ CronHighRiskResponse(rq, now)
       /\ calls' = CronHighRisk(rq, now).calls
  /\ UNCHANGED <<now, lastSynth, spawned, users, cache, clock, rateLimitMap, windows, profiles, regs, screens>>

\* GET /api/cron/daily-morning-notification
CronMorningGET ==
  /\ resp = NoResp
  /\ \E rq \in CronRequests("cron-morning") :
       /\ req' = rq
       /\ resp' = [route |-> "cron-morning"] @@ CronMorningResponse(rq, now)
       /\ calls' = CronMorningCalls(rq, now)
  /\ UNCHANGED <<now, lastSynth, spawned, users, cache, clock, rateLimitMap, windows, profiles, regs, screens>>

\* RegistrationPage: the bmi memo over the height and weight of the form
RegistrationBmi ==
  /\ resp = NoResp
  /\ \E h \in Heights, w \in Weights :
       /\ req' = [route |-> "bmi", height |-> h, weight |-> w]
       /\ resp' = [route |-> "bmi", src |-> "none", heightM |-> parseHeightToMeters(h),
                   weightKg |-> parseWeightToKg(w),
                   bmi |-> computeBmi(parseHeightToMeters(h), parseWeightToKg(w))]
  /\ UNCHANGED <<now, lastSynth, spawned, users, cache, calls, clock, rateLimitMap, windows, profiles, regs, screens>>

\* GET /api/recommendations
RecommendationsGET ==
  /\ resp = NoResp
  /\ \E rq \in RecommendationRequests :
       LET after == RateLimitSet(rateLimitMap, rq, clock)
           r     == RecommendationsResponse(rateLimitMap, rq, clock)
       IN  /\ Get(after[RateLimitKey(rq.forwardedFor)]).count <= RATE_LIMIT_MAX + MaxExcess
           /\ req' = rq
           /\ resp' = [route |-> "recommendations"] @@ r
           /\ rateLimitMap' = after
           /\ windows' = [windows EXCEPT ![rq.ip] =
                            Some(ClientWindow(windows[rq.ip], clock, r.status # 429))]
  /\ UNCHANGED <<now, lastSynth, spawned, users, cache, calls, clock, profiles, regs, screens>>

\* time passes
ClockAdvance ==
  /\ resp = NoResp
  /\ \E t \in Instants : t > clock /\ clock' = t
  /\ UNCHANGED <<now, req, resp, lastSynth, spawned, users, cache, calls, rateLimitMap, windows, profiles, regs, screens>>

Next == PersonalizedGET \/ PersonalizedGET2 \/ RiskGET \/ WeekGET \/ Deliver \/ Tick

Spec == Init /\ [][Next]_vars

\* the user store, the check-in route and the feature builder
NextStore == CreateOrUpdateUser \/ CheckInPOST \/ BuildFeatures \/ Deliver

SpecStore == Init /\ [][NextStore]_vars

\* the registration page deriving the BMI from the form
NextBmi == RegistrationBmi \/ Deliver

SpecBmi == Init /\ [][NextBmi]_vars

\* the rate limiter of the recommendations route
NextLimiter == RecommendationsGET \/ ClockAdvance \/ Deliver

SpecLimiter == Init /\ [][NextLimiter]_vars

\* the cron jobs
NextCron == CronHighRiskGET \/ CronMorningGET \/ Deliver \/ Tick

SpecCron == Init /\ [][NextCron]_vars

\* the prediction cache beside the route that is to read it
NextCache == OrchestratorRun \/ PersonalizedGET \/ Deliver

SpecCache == Init /\ [][NextCache]_vars

\* POST /api/users/register, up to its first database call: 401 without a
\* session, 400 for a body that is not JSON
RegisterPOST ==
  \E p \in Registrants, rq \in RegisterRequests :
    /\ regs[p].pc = "idle"
    /\ regs' = [regs EXCEPT ![p] =
         IF ~IsSome(rq.session) THEN [IdleRegistration EXCEPT !.pc = "done", !.status = 401]
         ELSE IF ~rq.json
         THEN [IdleRegistration EXCEPT !.pc = "done", !.status = 400,
                                       !.email = Get(rq.session)]
         ELSE [IdleRegistration EXCEPT !.pc = "read", !.email = Get(rq.session),
                                       !.body = rq.body, !.dbUp = rq.dbUp]]
    /\ UNCHANGED <<now, req, resp, lastSynth, spawned, users, cache, calls, clock,
                   rateLimitMap, windows, profiles, screens>>

\* const existing = await getUserByEmail(session.user.email); 503 when the
\* database call throws
RegisterRead ==
  \E p \in Registrants :
    /\ regs[p].pc = "read"
    /\ regs' = [regs EXCEPT ![p] =
         IF ~regs[p].dbUp THEN [@ EXCEPT !.pc = "done", !.status = 503]
         ELSE [@ EXCEPT !.pc = "write", !.existing = getUserByEmail(profiles, regs[p].email)]]
    /\ UNCHANGED <<now, req, resp, lastSynth, spawned, users, cache, calls, clock,
                   rateLimitMap, windows, profiles, screens>>

\* await createOrUpdateUser(...) with the profile merged from what was read;
\* the handler answers {ok: true}
RegisterWrite ==
  \E p \in Registrants :
    /\ regs[p].pc = "write"
    /\ profiles' = SetProfile(profiles, regs[p].email, regs[p].existing, regs[p].body)
    /\ users' = createOrUpdateUser(users, regs[p].email)
    /\ regs' = [regs EXCEPT ![p] = [@ EXCEPT !.pc = "done", !.status = 200]]
    /\ UNCHANGED <<now, req, resp, lastSynth, spawned, cache, calls, clock,
                   rateLimitMap, windows, screens>>

\* the responses are sent once no handler is between its calls
RegisterDeliver ==
  /\ \A p \in Registrants : regs[p].pc \in {"idle", "done"}
  /\ \E p \in Registrants : regs[p].pc = "done"
  /\ regs' = [p \in Registrants |-> IdleRegistration]
  /\ UNCHANGED <<now, req, resp, lastSynth, spawned, users, cache, calls, clock,
                 rateLimitMap, windows, profiles, screens>>

NextRegister == RegisterPOST \/ RegisterRead \/ RegisterWrite \/ RegisterDeliver

SpecRegister == Init /\ [][NextRegister]_vars

\* the location changes: the effect's cleanup aborts its request, the effect
\* runs again and loadWeek sets weekLoading and starts a new request
LocationChange ==
  \E l \in ScreenLocations :
    LET sc == screens["risk"] IN
    /\ l # sc.location
    /\ Len(sc.requests) < MaxRequests
    /\ screens' = [screens EXCEPT !["risk"] =
         [sc EXCEPT !.location = l, !.weekLoading = TRUE,
                    !.requests = Append(AbortEffect(sc.requests), ScreenRequest("effect", l))]]
    /\ UNCHANGED <<now, req, resp, lastSynth, spawned, users, cache, calls, clock,
                   rateLimitMap, windows, profiles, regs>>

\* the profile-updated event: onProfileUpdated sets weekLoading and starts a
\* request of its own, without a signal
ProfileUpdated ==
  LET sc == screens["personalized"] IN
  /\ Len(sc.requests) < MaxRequests
  /\ screens' = [screens EXCEPT !["personalized"] =
       [sc EXCEPT !.weekLoading = TRUE,
                  !.requests = Append(sc.requests, ScreenRequest("profile-updated", ""))]]
  /\ UNCHANGED <<now, req, resp, lastSynth, spawned, users, cache, calls, clock,
                 rateLimitMap, windows, profiles, regs>>

\* a pending request is answered, or its fetch fails
FetchSettles ==
  \E s \in Screens, o \in FetchOutcomes :
    \E r \in 1..Len(screens[s].requests) :
      /\ screens[s].requests[r].state = "pending"
      /\ screens' = [screens EXCEPT ![s] = Settled(s, screens[s], r, o)]
      /\ UNCHANGED <<now, req, resp, lastSynth, spawned, users, cache, calls, clock,
                     rateLimitMap, windows, profiles, regs>>

\* the fetch of an aborted request rejects with an AbortError
AbortRejects ==
  \E s \in Screens :
    \E r \in 1..Len(screens[s].requests) :
      /\ screens[s].requests[r].state = "aborted"
      /\ screens' = [screens EXCEPT ![s] = Settled(s, screens[s], r, "rejected")]
      /\ UNCHANGED <<now, req, resp, lastSynth, spawned, users, cache, calls, clock,
                     rateLimitMap, windows, profiles, regs>>

NextScreens == LocationChange \/ ProfileUpdated \/ FetchSettles \/ AbortRejects

SpecScreens == Init /\ [][NextScreens]_vars

\* ===================================================================== claims

LastRun(rq) == rq.runs[Len(rq.runs)]

\* the run ended with a non-zero or absent exit status, or printed nothing
EndedBadly(r) == r.status # Some(0) \/ r.stdout.kind \in {"null", "empty", "blank"}

\* the handler of rq reached the prediction pipeline
Signed(rq) == rq.route = "personalized" /\ rq.session /\ rq.account

\* days is the synthetic pattern: n consecutive dates from day number `first`,
\* the i-th carrying the i-th entry of the fixed level table
IsSyntheticDays(days, first, n) ==
  /\ Len(days) = n
  /\ \A i \in 1..Len(days) :
       /\ days[i].date = toLocalDateStr(SetDate(first, i - 1))
       /\ days[i].risk.score = levels[((i - 1) % 7) + 1].score
       /\ days[i].risk.level = levels[((i - 1) % 7) + 1].level
       /\ days[i].activeRiskFactors = <<>>

\* the tier the thresholds give a score
Tier(score) == IF score <= 2000 THEN "low" ELSE IF score <= 4000 THEN "moderate" ELSE "high"

\* C1: every 200 response of GET /api/risk/personalized for a signed-in user
\* with an account holds exactly 7 days with strictly ascending dates, however
\* many records the script printed.
C1_SevenAscendingDays ==
  (Signed(req) /\ resp.status = 200) =>
     /\ Len(resp.body.days) = 7
     /\ \A i \in 1..(Len(resp.body.days) - 1) :
          DateLess(resp.body.days[i].date, resp.body.days[i + 1].date)

\* C2: for a signed-in user with an account GET /api/risk/personalized always
\* answers 200, and answers with synthetic days whenever the script or model
\* is missing, the run failed, or stdout is not a JSON array.
C2_NeverHardError ==
  Signed(req) =>
     /\ resp.status = 200
     /\ (\/ ~req.scriptExists
         \/ (req.copy = 1 /\ ~req.hasModel)
         \/ (req.runs # <<>> /\ (\/ EndedBadly(LastRun(req))
                                 \/ LastRun(req).stdout.kind # "array")))
        => (resp.body.fromModel = FALSE /\ IsSyntheticDays(resp.body.days, now, 7))

C4_NonZeroExitFallsBack ==
  (req.route = "risk" /\ req.runs # <<>> /\ LastRun(req).status # Some(0)) =>
     /\ resp.src = "synthetic"
     /\ resp.body.date = req.date.val
     /\ resp.body.risk = fallbackByDate(req.date.val)

\* C5: every score in a GET /api/risk/personalized response lies in [1, 5].
C5_ScoreBounds ==
  (req.route = "personalized" /\ resp.status = 200) =>
     \A i \in 1..Len(resp.body.days) :
        resp.body.days[i].risk.score >= 1000 /\ resp.body.days[i].risk.score <= 5000

\* the script printed a value above 5 and one not above 0 for the user and
\* both are among the days served
C5_Witness ==
  /\ Signed(req) /\ req.copy = 1 /\ resp.status = 200 /\ resp.body.fromModel = TRUE
  /\ \E i \in 1..Len(LastRun(req).stdout.val) :
       LastRun(req).stdout.val[i].risk = Some(7500)
  /\ \E i \in 1..Len(resp.body.days) : resp.body.days[i].risk.score = 5000
  /\ Len(resp.body.days) = 7

\* C6: every day GET /api/risk/personalized builds from model output has the
\* level its score's tier gives: low up to 2, moderate above 2 up to 4, high
\* above 4, for the risk target and for the flare_day target.
C6_TierOfScore ==
  (req.route = "personalized" /\ resp.status = 200 /\ resp.src = "model") =>
     \A i \in 1..Len(resp.body.days) :
        resp.body.days[i].risk.level = Tier(resp.body.days[i].risk.score)

\* C7: synthetic data is a function of the date alone: a synthetic entry for
\* date D has the score and level of every synthetic entry for D served before.
C7_FallbackPerDate ==
  (resp.route # "none" /\ resp.src = "synthetic") =>
     \A e \in SynthEntries(resp) : \A f \in lastSynth :
        e.date = f.date => (e.score = f.score /\ e.level = f.level)

\* the days of the response are taken from the output of the request's last
\* run: that run succeeded and every day carries the date of an element of
\* the printed list
DaysFromOutput ==
  /\ req.runs # <<>>
  /\ ~EndedBadly(LastRun(req))
  /\ LastRun(req).stdout.kind \in {"array", "object"}
  /\ LET items == IF req.route = "week" THEN LastRun(req).stdout.val.days.items
                  ELSE LastRun(req).stdout.val
     IN  \A i \in 1..Len(resp.body.days) :
            \E j \in 1..Len(items) : items[j].date = resp.body.days[i].date

C9_SyntheticIsMarked ==
  (req.route = "risk" /\ resp.src = "synthetic") =>
     \A o \in RiskObjects(req.date.val) :
        IsSome(o.risk) => RiskModelBody(o) # resp.body

\* C10: outside development no field of a GET /api/risk/personalized response
\* carries the failure reason: the body of a fallback is start, days and
\* fromModel alone, and start and days are the synthetic pattern for today.
C10_ReasonOnlyInDevelopment ==
  (req.route = "personalized" /\ req.nodeEnv # "development" /\ resp.status = 200) =>
     /\ "fallbackReason" \notin DOMAIN resp.body
     /\ resp.src = "synthetic" =>
          /\ DOMAIN resp.body = {"start", "days", "fromModel"}
          /\ resp.body.start = toLocalDateStr(now)
          /\ IsSyntheticDays(resp.body.days, now, 7)

\* a production request whose run failed with text on stderr
C10_Witness ==
  /\ Signed(req) /\ req.copy = 1 /\ req.nodeEnv = "production" /\ req.runs # <<>>
  /\ LastRun(req).stderr = Some("Traceback")
  /\ EndedBadly(LastRun(req))
  /\ resp.src = "synthetic"

\* the number of characters after the decimal point of a decimal string
FractionLength(str) == IF IndexOf(str, ".") = 0 THEN 0 ELSE Len(str) - IndexOf(str, ".")

\* str is a decimal with at most 4 decimal places, the nearest such to v
IsRounded4(str, v) ==
  /\ IsDecimal(str)
  /\ FractionLength(str) <= 4
  /\ Abs(Get(parseFloat(str)) - v) <= (Scale \div 10000) \div 2

\* id is "<lat>_<lon>" with both coordinates rounded to 4 decimal places
IsLatLonId(id, lat, lon) ==
  /\ IsSome(id)
  /\ LET u == IndexOf(Get(id), "_")
     IN  /\ u > 0
         /\ IsRounded4(SubSeq(Get(id), 1, u - 1), lat)
         /\ IsRounded4(SubSeq(Get(id), u + 1, Len(Get(id))), lon)

\* C11: when the location parameter of GET /api/risk or GET /api/week is a
\* "lat,lon" string, every process the route spawns is given the location id
\* "<lat>_<lon>" with both coordinates rounded to 4 decimal places; when it is
\* a 5-digit ZIP code, every process is given "zip_" and those 5 digits.
C11_LocationIdPassed ==
  (req.route \in {"risk", "week"} /\ spawned # <<>>) =>
     LET loc == LocationParam(req)
     IN  /\ loc.kind = "latlon" =>
               \A k \in 1..Len(spawned) : IsLatLonId(spawned[k].locationId, loc.lat, loc.lon)
         /\ loc.kind = "zip" =>
               \A k \in 1..Len(spawned) :
                  spawned[k].locationId = Some(<<"z", "i", "p", "_">> \o loc.digits)

\* a week request with coordinates of more than 4 decimal places has spawned
\* two processes
C11_Witness ==
  /\ req.route = "week"
  /\ Len(spawned) = 2
  /\ LocationParam(req).kind = "latlon"
  /\ LocationParam(req).lat % (Scale \div 10000) # 0
  /\ spawned[2].latlon # None

\* the stored check-ins of a user; none when the user has no document
StoredCheckIns(email) == IF IsSome(users[email]) THEN Get(users[email]).checkIns ELSE <<>>

\* C12: a user's stored checkIns list holds at most one entry for any
\* calendar date.
C12_OneCheckInPerDate ==
  \A email \in Emails :
     \A i, j \in 1..Len(StoredCheckIns(email)) :
        (i # j /\ StoredCheckIns(email)[i].date.iso)
           => StoredCheckIns(email)[i].date # StoredCheckIns(email)[j].date

Grades == {0, 1000, 2000, 3000}

\* C13: every stored check-in has wheeze, cough and chestTightness in
\* {0, 1, 2, 3} and exerciseMinutes >= 0.
C13_StoredFieldsInRange ==
  \A email \in Emails :
     \A i \in 1..Len(StoredCheckIns(email)) :
        LET c == StoredCheckIns(email)[i]
        IN  /\ c.wheeze \in Grades
            /\ c.cough \in Grades
            /\ c.chestTightness \in Grades
            /\ c.exerciseMinutes >= 0

\* C14: the dates of a user's stored checkIns list are in ascending order.
C14_CheckInsAscending ==
  \A email \in Emails :
     \A i, j \in 1..Len(StoredCheckIns(email)) :
        (i < j /\ StoredCheckIns(email)[i].date.iso /\ StoredCheckIns(email)[j].date.iso)
           => ~DateLess(StoredCheckIns(email)[j].date.val, StoredCheckIns(email)[i].date.val)

\* the check-ins of the vector's user that are dated the day before its date
DayBefore(rq) ==
  {i \in 1..Len(StoredCheckIns(rq.email)) :
     StoredCheckIns(rq.email)[i].date = IsoDate(rq.date - 1)}

\* the lag fields of vector v are the symptom fields of check-in c
LagFrom(v, c) ==
  /\ v.wheeze_lag1 = c.wheeze
  /\ v.cough_lag1 = c.cough
  /\ v.chestTightness_lag1 = c.chestTightness
  /\ v.exerciseMinutes_lag1 = c.exerciseMinutes

\* C18: the lag fields of the feature vector for (user, D) are the symptom
\* fields of a check-in of that user dated D - 1, and all 0 when the user has
\* no check-in of that date, whatever the neighbouring list entries hold.
C18_LagByCalendarDate ==
  req.route = "features" =>
     IF DayBefore(req) = {}
     THEN LagFrom(resp.body, NoSymptoms) /\ resp.body.symptom_score_lag1 = 0
     ELSE \E i \in DayBefore(req) : LagFrom(resp.body, StoredCheckIns(req.email)[i])

\* a vector built for a date whose list entry follows an entry dated two
\* days earlier with symptoms, and a vector whose lag fields are not 0
C18_Witness ==
  /\ req.route = "features"
  /\ DayBefore(req) = {}
  /\ \E i \in 2..Len(StoredCheckIns(req.email)) :
       /\ StoredCheckIns(req.email)[i].date = IsoDate(req.date)
       /\ StoredCheckIns(req.email)[i - 1].date = IsoDate(req.date - 2)
       /\ StoredCheckIns(req.email)[i - 1].wheeze > 0

\* the user's check-ins are exactly one of 2026-02-08 with wheeze 2 and one
\* of 2026-02-09 with wheeze 1
LagExampleGiven(email) ==
  /\ Len(StoredCheckIns(email)) = 2
  /\ {[date |-> c.date, wheeze |-> c.wheeze] :
        c \in {StoredCheckIns(email)[i] : i \in 1..2}}
       = {[date |-> IsoDate(Feb8), wheeze |-> 2000], [date |-> IsoDate(Feb8 + 1), wheeze |-> 1000]}

CachedFor(user_id, day) ==
  {r \in cache : r.user_id = user_id /\ r.date = toLocalDateStr(day)}

\* C15: when the prediction for the signed-in user fails and the cache holds
\* a record of that user for each of the 7 requested dates, the response of
\* GET /api/risk/personalized is 200 with the 7 days of those cached records.
C15_DegradedFromCache ==
  (/\ Signed(req)
   /\ resp.src # "model"
   /\ \A i \in 1..Days : CachedFor(req.userId, now + i - 1) # {})
  => /\ resp.status = 200
     /\ Len(resp.body.days) = Days
     /\ \A i \in 1..Days :
          \E r \in CachedFor(req.userId, now + i - 1) :
             /\ resp.body.days[i].date = r.date
             /\ resp.body.days[i].risk.score = r.risk

\* no record of the pass has the key of r
Untouched(r, recs) == \A k \in 1..Len(recs) : ~SameKey(r, recs[k])

\* C20: after an upsert for a key that an earlier upsert has written, the
\* cache holds exactly one record for the key, the later one, and the
\* records of every other key are as they were.
C20_UpsertLastWriteWins ==
  req.route = "orchestrator" =>
     /\ \A k \in 1..Len(req.records) :
          {r \in cache : SameKey(r, req.records[k])} = {req.records[k]}
     /\ {r \in cache : Untouched(r, req.records)} = {r \in req.before : Untouched(r, req.records)}

\* a pass has upserted a score for a key that held another score, while the
\* cache held records of other keys
C20_Witness ==
  /\ req.route = "orchestrator"
  /\ \E r \in req.before : \E k \in 1..Len(req.records) :
       SameKey(r, req.records[k]) /\ r.risk # req.records[k].risk
  /\ \E r \in req.before : Untouched(r, req.records)

\* the entry records a failure
Failed(entry) == ~entry.sent /\ IsSome(entry.error)

\* processing the k-th user of the batch failed: the week API was
\* unreachable, answered with a non-OK status or not with JSON, or the send
\* of the alert failed
UserFailed(rq, k) ==
  IF rq.route = "cron-morning" THEN rq.outcomes[k].send.error
  ELSE \/ rq.outcomes[k].week.kind \in {"unreachable", "status", "notjson"}
       \/ /\ rq.outcomes[k].week.kind = "served"
          /\ RiskLevel(rq.users[k], rq.outcomes[k].week, now) = Some("high")
          /\ rq.outcomes[k].send.error \/ ~rq.resendKey

HeightUnparsable(h) ==
  LET s == Trim(h)
  IN  /\ ~IsSome(MatchUnit(s, {<<"c", "m">>, <<"m">>}))
      /\ ~IsSome(FtInMatch(s))
      /\ ~IsSome(FtOnlyMatch(s))

\* the height has a form the parser knows, with a number outside the range
\* of that form: 0 to 300 cm, 0 to 3 m, 2 to 8 ft, 0 to 12 in
HeightOutOfRange(h) ==
  LET s  == Trim(h)
      v  == Get(parseFloatBmi(s))
      fi == Get(FtInMatch(s))
  IN  IF IsSome(MatchUnit(s, {<<"c", "m">>})) THEN v <= 0 \/ v >= 300 * BmiScale
      ELSE IF IsSome(MatchUnit(s, {<<"m">>})) THEN v <= 0 \/ v >= 3 * BmiScale
      ELSE IF IsSome(FtInMatch(s))
      THEN \/ DigitsValue(fi.ft) < 2 \/ DigitsValue(fi.ft) > 8
           \/ Get(parseFloatBmi(fi.inch)) >= 12 * BmiScale
      ELSE /\ IsSome(FtOnlyMatch(s))
           /\ DigitsValue(Get(FtOnlyMatch(s))) < 2 \/ DigitsValue(Get(FtOnlyMatch(s))) > 8

\* no number can be read from the weight
WeightUnparsable(w) == ~IsSome(parseFloatBmi(Trim(w)))

\* the number of the weight is beyond what the parser takes in any unit
\* (500 kg, 1500 lbs), or not positive
WeightOutOfRange(w) ==
  /\ IsSome(parseFloatBmi(Trim(w)))
  /\ \/ Get(parseFloatBmi(Trim(w))) <= 0
     \/ Get(parseFloatBmi(Trim(w))) >= 1500 * BmiScale

\* C17: an unparsable or out-of-range height yields null, an unparsable or
\* out-of-range weight yields null, and computeBmi returns null whenever
\* either parsed value is null.
C17_BmiTotal ==
  req.route = "bmi" =>
    /\ HeightUnparsable(req.height) \/ HeightOutOfRange(req.height) => resp.heightM = None
    /\ WeightUnparsable(req.weight) \/ WeightOutOfRange(req.weight) => resp.weightKg = None
    /\ resp.heightM = None \/ resp.weightKg = None => resp.bmi = None

\* C21: every synthetic day of GET /api/risk, GET /api/week and
\* GET /api/risk/personalized carries the tier the thresholds give its score:
\* low up to 2, moderate above 2 up to 4, high above 4.
C21_FallbackTier ==
  (resp.route \in {"risk", "week", "personalized"} /\ resp.src = "synthetic") =>
     \A e \in SynthEntries(resp) : e.level = Tier(e.score)

\* the request carries the secret CRON_SECRET is set to
CarriesSecret(rq) ==
  /\ IsSome(rq.cronSecret)
  /\ rq.cronSecret # Some("")
  /\ rq.secretParam = rq.cronSecret \/ rq.bearerSecret = rq.cronSecret

\* C22: a cron job loads users, calls the week API or sends mail only for a
\* request whose ?secret or Bearer token equals a CRON_SECRET that is set;
\* with CRON_SECRET unset every request is answered 401 and makes no call.
C22_CronSecretGates ==
  req.route \in {"cron-high-risk", "cron-morning"} =>
    /\ calls # <<>> => CarriesSecret(req)
    /\ ~IsSome(req.cronSecret) => resp.status = 401 /\ calls = <<>>

\* with CRON_SECRET unset, a request without any secret for a database that
\* holds a user at high risk has been answered
C22_Witness ==
  /\ req.route = "cron-high-risk"
  /\ ~IsSome(req.cronSecret)
  /\ req.secretParam = None /\ req.bearerSecret = None
  /\ Len(req.users) = 1
  /\ resp.status = 401

\* an email call of the job in flight to the k-th loaded user
MailsTo(k) == {i \in 1..Len(calls) : calls[i].kind = "email" /\ calls[i].to = req.users[k].email}

\* C23: in a run of the daily high-risk job a mail goes to a loaded user only
\* if the week API, asked for tomorrow at the user's location, answered with
\* the level high for its first day, and no user gets more than one mail.
C23_AlertOnlyOnHigh ==
  req.route = "cron-high-risk" =>
    /\ \A i \in 1..Len(calls) :
         calls[i].kind = "email" => \E k \in 1..Len(req.users) : calls[i].to = req.users[k].email
    /\ \A k \in 1..Len(req.users) :
         /\ Cardinality(MailsTo(k)) <= 1
         /\ MailsTo(k) # {} =>
              /\ req.outcomes[k].week.kind = "served"
              /\ \E j \in 1..Len(calls) :
                   /\ calls[j].kind = "week"
                   /\ calls[j].email = req.users[k].email
                   /\ calls[j].start = toLocalDateStr(now + 1)
                   /\ calls[j].location = req.users[k].location
              /\ LET data == WeekAnswer(req.users[k], req.outcomes[k].week, now).body
                 IN  Len(data.days) >= 1 /\ data.days[1].risk.level = "high"

\* a run over three users: the first at moderate risk, the second without a
\* day, the third at high risk and mailed
C23_Witness ==
  /\ req.route = "cron-high-risk"
  /\ Len(req.users) = 3
  /\ RiskLevel(req.users[1], req.outcomes[1].week, now) = Some("moderate")
  /\ req.outcomes[2].week.kind = "served"
  /\ RiskLevel(req.users[2], req.outcomes[2].week, now) = None
  /\ MailsTo(3) # {}
  /\ MailsTo(1) = {} /\ MailsTo(2) = {}

\* C27: when the week API answers a user's request with its fallback
\* (fromModel = false), the daily high-risk job sends that user no mail.
C27_NoAlertOnFallback ==
  req.route = "cron-high-risk" =>
    \A k \in 1..Len(req.users) :
       (/\ req.outcomes[k].week.kind = "served"
        /\ ~WeekAnswer(req.users[k], req.outcomes[k].week, now).body.fromModel)
       => MailsTo(k) = {}

\* a run in which the week API served the fallback to the first user and a
\* high day of the model to the second, who was mailed
C27_Witness ==
  /\ req.route = "cron-high-risk"
  /\ Len(req.users) >= 2
  /\ req.outcomes[1].week.kind = "served"
  /\ ~WeekAnswer(req.users[1], req.outcomes[1].week, now).body.fromModel
  /\ calls # <<>>
  /\ MailsTo(1) = {}
  /\ MailsTo(2) # {}

\* the script's output without the records of other users
OwnRecords(run, userId) ==
  IF run.stdout.kind = "array"
  THEN [run EXCEPT !.stdout.val = SelectSeq(run.stdout.val, LAMBDA p : p.user_id = userId)]
  ELSE run

\* the request as it is when every run prints the signed-in user's records only
WithoutOthers(rq) ==
  [rq EXCEPT !.runs = [k \in 1..Len(rq.runs) |-> OwnRecords(rq.runs[k], rq.userId)]]

\* the script printed a record of another user
OthersPrinted(rq) ==
  \E k \in 1..Len(rq.runs) :
     /\ rq.runs[k].stdout.kind = "array"
     /\ \E i \in 1..Len(rq.runs[k].stdout.val) : rq.runs[k].stdout.val[i].user_id # rq.userId

\* C24: the response of GET /api/risk/personalized is the response the same
\* request gets when the script prints the signed-in user's records alone:
\* the records of other users neither appear in it nor change it.
C24_OnlyOwnRecords ==
  (req.route = "personalized" /\ OthersPrinted(req)) =>
     resp = [route |-> "personalized"] @@
            (IF req.copy = 1 THEN PersonalizedResponse(WithoutOthers(req), now)
             ELSE PersonalizedResponse2(WithoutOthers(req), now))

\* a response built from the user's records out of a batch that holds records
\* of another user, before and between them
C24_Witness ==
  /\ req.route = "personalized"
  /\ resp.status = 200 /\ resp.src = "model"
  /\ Len(req.runs) = 1
  /\ Len(req.runs[1].stdout.val) = 4
  /\ req.runs[1].stdout.val[1].user_id = Other
  /\ req.runs[1].stdout.val[3].user_id = Other
  /\ Len(resp.body.days) = 2

\* the count the limiter keeps for a client: the entry under the key its
\* requests are counted under
CountKeptFor(m, ip) == m[RateLimitKey(ForwardedFor(ip))]

\* a request was handled, and the counts kept for all other clients are as
\* they were
OtherCountsUntouched ==
  (resp = NoResp /\ resp' # NoResp /\ req'.route = "recommendations") =>
     \A other \in ClientIps \ {req'.ip} :
        CountKeptFor(rateLimitMap', other) = CountKeptFor(rateLimitMap, other)

\* C25: within one window of a client address at most RATE_LIMIT_MAX of its
\* requests pass the limiter and every further one in the window is answered
\* 429; and a request never changes the count kept for another address.
C25_RateLimitPerIp ==
  /\ [](\A ip \in ClientIps :
          IsSome(windows[ip]) =>
            /\ Get(windows[ip]).passed <= RATE_LIMIT_MAX
            /\ (req.route = "recommendations" /\ req.ip = ip
                  /\ Get(windows[ip]).seen > RATE_LIMIT_MAX) => resp.status = 429)
  /\ [][OtherCountsUntouched]_vars

\* the number of days a request asks GET /api/week for: the integer clamped
\* to [1, 14], and 7 when the parameter is absent or not a number
RequestedDays(p) ==
  IF p.kind \in {"absent", "nan"} THEN 7
  ELSE IF p.n < 1 THEN 1 ELSE IF p.n > 14 THEN 14 ELSE p.n

\* s is the date string of a day of the calendar of 2026
IsCalendarDate(s) == s[1] = 2026 /\ s[2] \in 1..12 /\ s[3] \in 1..MonthLen[s[2]]

\* the date string of the day after the calendar day s
NextCalendarDay(s) ==
  IF s[3] < MonthLen[s[2]] THEN <<s[1], s[2], s[3] + 1>> ELSE <<s[1], s[2] + 1, 1>>

\* C26: the synthetic fallback of GET /api/week holds exactly the requested
\* number of days clamped to [1, 14] (7 without a usable parameter), dated as
\* consecutive calendar days that begin at start, in ascending order.
C26_WeekFallbackDates ==
  (req.route = "week" /\ resp.status = 200 /\ resp.src = "synthetic") =>
     LET days == resp.body.days
     IN  /\ Len(days) = RequestedDays(req.days)
         /\ days[1].date = resp.body.start
         /\ \A i \in 1..Len(days) : IsCalendarDate(days[i].date)
         /\ \A i \in 2..Len(days) : days[i].date = NextCalendarDay(days[i - 1].date)

\* C28: whenever POST /api/users/check-in answers {ok: true}, the submitted
\* check-in is the newest entry of the signed-in user's stored checkIns.
C28_OkMeansStored ==
  (req.route = "check-in" /\ resp.status = 200) =>
     LET stored == StoredCheckIns(Get(req.session))
     IN  /\ stored # <<>>
         /\ stored[Len(stored)] = CheckInOf(req.body, req.utcDay)


\* both requests are for the same user, have been answered {ok: true}, and
\* set profile fields the other does not set
BothRegistered ==
  /\ \A p \in Registrants : regs[p].pc = "done" /\ regs[p].status = 200
  /\ regs[1].email = regs[2].email
  /\ Incoming(regs[1].body) # {} /\ Incoming(regs[2].body) # {}
  /\ Incoming(regs[1].body) \cap Incoming(regs[2].body) = {}

\* C29: when two POST /api/users/register requests for the same user that set
\* different profile fields have both completed, the stored profile holds
\* the field values of both, however their reads and writes interleaved.
C29_BothRegistrationsTakeEffect ==
  BothRegistered =>
     /\ IsSome(profiles[regs[1].email])
     /\ \A p \in Registrants : \A k \in Incoming(regs[p].body) :
          Get(profiles[regs[1].email])[k] = regs[p].body[k]


\* request r of screen s has been superseded: the screen started a later one
Superseded(s, r) == r < Len(screens[s].requests)

\* what a screen shows
Shown(sc) == <<sc.weekData, sc.fromModel, sc.weekLoading>>

\* weekLoading is true while the newest request of a screen is in flight
LoadingWhileNewestInFlight ==
  \A s \in Screens :
     LET rs == screens[s].requests
     IN  rs[Len(rs)].state = "pending" => screens[s].weekLoading = TRUE

\* a step in which a superseded request ends leaves what the screen shows
SupersededIsSilent ==
  \A s \in Screens : \A r \in 1..Len(screens[s].requests) :
     (Superseded(s, r) /\ screens[s].requests[r].state # "settled"
        /\ screens'[s].requests[r].state = "settled")
       => Shown(screens'[s]) = Shown(screens[s])

\* C30: in the risk screens a superseded forecast request (aborted because
\* the location changed, or overtaken by a profile-updated re-fetch) changes
\* none of weekData, fromModel and weekLoading any more, and weekLoading
\* stays true for as long as the newest request is in flight.
C30_SupersededRequestsAreSilent ==
  []LoadingWhileNewestInFlight /\ [][SupersededIsSilent]_vars

====
